---- MODULE Spec2Model ----
(***************************************************************************)
(* Verification model of the image converter: the batch orchestrator       *)
(* (useImageProcessor.convertBatch / processImage), the preview scheduler  *)
(* (usePreviewEffect), the stage pipeline and the advanced effects.        *)
(***************************************************************************)
EXTENDS Integers, Sequences, FiniteSets, TLC

(***************************************************************************)
(* Bounds of the model.                                                    *)
(***************************************************************************)
MaxFiles == 3
MaxRuns == 4
MaxNoisePixels == 2
MaxApplications == 2
MaxAdvancedRuns == 3
MaxListCalls == 3

(***************************************************************************)
(* Program constants.                                                      *)
(***************************************************************************)
MAX_FILE_SIZE == 26214400
\* the batch list is cut with slice(0, 10)
BatchLimit == 10

VARIABLES
  files,          \* convertBatch: the File[] argument
  options,        \* convertBatch: the ProcessingOptions argument
  isProcessing,   \* useImageProcessor state
  batchPc,        \* position of convertBatch: idle, awaitAll, zipping, done
  itemPc,         \* position of each per-item async callback of files.map
  promise,        \* state of the promise returned by each processImage call
  zip,            \* JSZip instance: its members in insertion order
  archive,        \* state of the promise returned by zip.generateAsync
  delivered,      \* the archive handed to link.click(), or NoArchive
  toasts,         \* toast.success / toast.error calls of convertBatch
  image,          \* pipeline: the decoded source image
  effects,        \* pipeline: the effect settings
  exported,       \* pipeline: the canvas processImage encodes
  previewed,      \* pipeline: the canvas generatePreview encodes
  sourceImage,    \* usePreviewEffect: the sourceImage prop
  settings,       \* usePreviewEffect: the effect props of the current render
  previewUrl,     \* usePreviewEffect: the previewUrl state
  runs,           \* usePreviewEffect: the closures of the runs of the effect
  submissions,    \* number of changes of settings or source submitted so far
  commits,        \* the setPreviewUrl calls made so far
  notices,        \* number of toast.error calls of updatePreview
  mounted,        \* the component using the hook is mounted
  advSource,      \* AdvancedEffects: the decoded sourceImage
  advEffects,     \* AdvancedEffects: the effect state of the component
  applications,   \* the calls of applyAdvancedEffects made so far
  advParams,      \* AdvancedEffects preview: the effect state of the current render
  advRuns,        \* AdvancedEffects preview: the updatePreview calls, in submission order
  advPreviewUrl,  \* AdvancedEffects preview: the previewUrl state
  advCommits,     \* AdvancedEffects preview: the runs that called setPreviewUrl, in call order
  candidate,      \* validation: the File passed to validateImage and processImage
  verdict,        \* validation: what validateImage returned, or "none"
  attempt,        \* validation: how far processImage got, or "none"
  batchFiles,     \* App: the batchFiles state, every File tagged with its drop number
  dropped,        \* App: number of files passed to handleBatchAdd so far
  listCalls,      \* App: number of handleBatchAdd and handleBatchRemove calls so far
  lastCall,       \* App: the last call, with the list it found
  removalSource,  \* BackgroundRemoval: the pixels of the sourceImage prop
  removalParams,  \* BackgroundRemoval: threshold, tolerance, smoothing, featherSize
  removalPc,      \* BackgroundRemoval: position of processImage
  removalRun,     \* BackgroundRemoval: sobelData, mask and data of the processImage call in flight
  removalPreview, \* BackgroundRemoval: the previewUrl state, "" or an object URL
  stage           \* one stage of a pipeline applied to a buffer: the call and its result

batchVars == <<files, options, isProcessing, batchPc, itemPc, promise, zip, archive, delivered, toasts>>

pipelineVars == <<image, effects, exported, previewed>>

previewVars ==
  <<sourceImage, settings, previewUrl, runs, submissions, commits, notices, mounted>>

advancedVars == <<advSource, advEffects, applications>>

advPreviewVars == <<advParams, advRuns, advPreviewUrl, advCommits>>

\* the components added to the model after the first four
validationVars == <<candidate, verdict, attempt>>

listVars == <<batchFiles, dropped, listCalls, lastCall>>

removalVars == <<removalSource, removalParams, removalPc, removalRun, removalPreview>>

stageVars == <<stage>>

laterVars == <<advPreviewVars, validationVars, listVars, removalVars, stageVars>>

vars == <<batchVars, pipelineVars, previewVars, advancedVars, laterVars>>

\* the variables of the other components
notBatch == <<pipelineVars, previewVars, advancedVars, laterVars>>
notPipeline == <<batchVars, previewVars, advancedVars, laterVars>>
notPreview == <<batchVars, pipelineVars, advancedVars, laterVars>>
notAdvanced == <<batchVars, pipelineVars, previewVars, laterVars>>
firstVars == <<batchVars, pipelineVars, previewVars, advancedVars>>
notAdvPreview == <<firstVars, validationVars, listVars, removalVars, stageVars>>
notValidation == <<firstVars, advPreviewVars, listVars, removalVars, stageVars>>
notList == <<firstVars, advPreviewVars, validationVars, removalVars, stageVars>>
notRemoval == <<firstVars, advPreviewVars, validationVars, listVars, stageVars>>
notStage == <<firstVars, advPreviewVars, validationVars, listVars, removalVars>>

(***************************************************************************)
(* Files.  A file name is a sequence of name segments in which "." is a    *)
(* segment of its own; a MIME type is the pair <<major, minor>> of the     *)
(* text before and after its "/".                                          *)
(***************************************************************************)
NoArchive == [sent |-> FALSE, members |-> <<>>]

File(name, size, type, decodable) ==
  [present |-> TRUE, name |-> name, size |-> size, type |-> type, decodable |-> decodable]

\* no file: null
NoFile ==
  [present |-> FALSE, name |-> <<>>, size |-> 0, type |-> <<"", "">>, decodable |-> FALSE]

FileCatalogue ==
  { File(<<"photo", ".", "png">>, 1000, <<"image", "png">>, TRUE),
    File(<<"photo", ".", "jpg">>, 2000, <<"image", "jpeg">>, TRUE),
    File(<<"my", ".", "photo", ".", "png">>, MAX_FILE_SIZE, <<"image", "png">>, TRUE),
    File(<<"corrupt", ".", "png">>, 3000, <<"image", "png">>, FALSE),
    File(<<"huge", ".", "png">>, MAX_FILE_SIZE + 1, <<"image", "png">>, TRUE) }

OptionsCatalogue ==
  { [format |-> "png", quality |-> 90],
    [format |-> "jpeg", quality |-> 90],
    [format |-> "jpeg", quality |-> 100],
    [format |-> "bmp", quality |-> 90] }

\* validateImage: a file, of size at most MAX_FILE_SIZE, whose type
\* startsWith('image/')
validateImage(file) ==
  IF ~file.present THEN FALSE
  ELSE IF file.size > MAX_FILE_SIZE THEN FALSE
  ELSE IF file.type[1] # "image" THEN FALSE
  ELSE TRUE

\* name.split('.'): the segments between the dots
RECURSIVE split(_)
split(name) ==
  IF name = <<>> THEN << <<>> >>
  ELSE IF Head(name) = "." THEN << <<>> >> \o split(Tail(name))
  ELSE LET rest == split(Tail(name))
       IN  << <<Head(name)>> \o Head(rest) >> \o Tail(rest)

\* `${file.name.split('.')[0]}-converted.${options.format}`
memberName(file, opts) ==
  split(file.name)[1] \o <<"-converted", ".", opts.format>>

\* zip.file(name, data): a new member is appended, an existing name keeps
\* its place and gets the new data
RECURSIVE zipFile(_, _)
zipFile(z, entry) ==
  IF z = <<>> THEN <<entry>>
  ELSE IF Head(z).name = entry.name THEN <<entry>> \o Tail(z)
  ELSE <<Head(z)>> \o zipFile(Tail(z), entry)

\* needs the compression step of the toBlob callback
needsCompression(opts) == opts.format # "png" /\ opts.quality < 100

Items == 1..Len(files)

\* no step of item i remains to be run
ItemFinished(i) == itemPc[i] \in {"added", "rejected", "callbackThrew"}
ItemSucceeded(i) == promise[i] = "fulfilled"
ItemFailed(i) == promise[i] = "rejected"

(***************************************************************************)
(* convertBatch.                                                           *)
(***************************************************************************)
BatchInit ==
  /\ files \in UNION { [1..n -> FileCatalogue] : n \in 1..MaxFiles }
  /\ options \in OptionsCatalogue
  /\ isProcessing = FALSE
  /\ batchPc = "idle"
  /\ itemPc = [i \in Items |-> "notStarted"]
  /\ promise = [i \in Items |-> "pending"]
  /\ zip = <<>>
  /\ archive = "none"
  /\ delivered = NoArchive
  /\ toasts = <<>>

\* catch (error) { toast.error(...) } finally { setIsProcessing(false) }
BatchCatch ==
  /\ toasts' = Append(toasts, "error")
  /\ isProcessing' = FALSE
  /\ batchPc' = "done"

\* convertBatch up to `await Promise.all(processPromises)`: every callback of
\* files.map runs processImage up to its first await; a file that fails
\* validateImage rejects at once, and Promise.all rejects with it
ConvertBatch ==
  /\ batchPc = "idle"
  /\ zip' = <<>>
  /\ itemPc' = [i \in Items |->
                  IF validateImage(files[i]) THEN "decoding" ELSE "rejected"]
  /\ promise' = [i \in Items |->
                   IF validateImage(files[i]) THEN "pending" ELSE "rejected"]
  /\ IF \E i \in Items : ~validateImage(files[i])
       THEN BatchCatch
       ELSE /\ isProcessing' = TRUE
            /\ batchPc' = "awaitAll"
            /\ toasts' = toasts
  /\ UNCHANGED <<files, options, archive, delivered>>
  /\ UNCHANGED notBatch

\* an item's promise rejects: the first rejection rejects Promise.all, which
\* takes convertBatch to its catch block
ItemReject(i) ==
  /\ itemPc' = [itemPc EXCEPT ![i] = "rejected"]
  /\ promise' = [promise EXCEPT ![i] = "rejected"]
  /\ IF batchPc = "awaitAll"
       THEN BatchCatch
       ELSE UNCHANGED <<toasts, isProcessing, batchPc>>
  /\ UNCHANGED zip

\* an item's processImage resolves: the map callback adds the member, and
\* when every item is fulfilled Promise.all resolves and zip.generateAsync
\* is started
ItemResolve(i) ==
  /\ itemPc' = [itemPc EXCEPT ![i] = "added"]
  /\ promise' = [promise EXCEPT ![i] = "fulfilled"]
  /\ zip' = zipFile(zip, [name |-> memberName(files[i], options), blob |-> i])
  /\ batchPc' = IF batchPc = "awaitAll" /\ \A j \in Items : promise'[j] = "fulfilled"
                  THEN "zipping" ELSE batchPc
  /\ UNCHANGED <<toasts, isProcessing>>

\* the callback passed to toBlob throws or awaits a rejected promise: the
\* promise returned by processImage is neither resolved nor rejected
CallbackThrows(i) ==
  /\ itemPc' = [itemPc EXCEPT ![i] = "callbackThrew"]
  /\ UNCHANGED <<promise, zip, toasts, isProcessing, batchPc>>

\* createImageBitmap settles; on success the canvas work runs and toBlob is
\* called
ItemDecoded(i) ==
  /\ itemPc[i] = "decoding"
  /\ IF files[i].decodable
       THEN /\ itemPc' = [itemPc EXCEPT ![i] = "encoding"]
            /\ UNCHANGED <<promise, zip, toasts, isProcessing, batchPc>>
       ELSE ItemReject(i)
  /\ UNCHANGED <<files, options, archive, delivered>>
  /\ UNCHANGED notBatch

\* the toBlob callback runs with a blob or with null
ItemToBlob(i, blob) ==
  /\ itemPc[i] = "encoding"
  /\ IF blob = "null" THEN CallbackThrows(i)
     ELSE IF needsCompression(options)
       THEN /\ itemPc' = [itemPc EXCEPT ![i] = "compressing"]
            /\ UNCHANGED <<promise, zip, toasts, isProcessing, batchPc>>
       ELSE ItemResolve(i)
  /\ UNCHANGED <<files, options, archive, delivered>>
  /\ UNCHANGED notBatch

\* imageCompression settles
ItemCompressed(i, ok) ==
  /\ itemPc[i] = "compressing"
  /\ IF ok THEN ItemResolve(i) ELSE CallbackThrows(i)
  /\ UNCHANGED <<files, options, archive, delivered>>
  /\ UNCHANGED notBatch

\* zip.generateAsync settles: the archive is downloaded, or the catch block
\* runs; then the finally block
ZipGenerated(ok) ==
  /\ batchPc = "zipping"
  /\ archive' = IF ok THEN "fulfilled" ELSE "rejected"
  /\ IF ok
       THEN /\ delivered' = [sent |-> TRUE, members |-> zip]
            /\ toasts' = Append(toasts, "success")
            /\ isProcessing' = FALSE
            /\ batchPc' = "done"
       ELSE /\ BatchCatch
            /\ delivered' = delivered
  /\ UNCHANGED <<files, options, itemPc, promise, zip>>
  /\ UNCHANGED notBatch

BitmapCreated == \E i \in Items : ItemDecoded(i)
ToBlobCallback == \E i \in Items : \E blob \in {"null", "blob"} : ItemToBlob(i, blob)
CompressionSettled == \E i \in Items : \E ok \in BOOLEAN : ItemCompressed(i, ok)
GenerateAsyncSettled == \E ok \in BOOLEAN : ZipGenerated(ok)


(***************************************************************************)
(* Raster buffers.  A canvas is [w, h, px]: px is the row-major sequence   *)
(* of its w*h pixels, a pixel is <<r, g, b, a>> with channels in 0..255.   *)
(***************************************************************************)
Min(a, b) == IF a < b THEN a ELSE b
Max(a, b) == IF a > b THEN a ELSE b
Abs(a) == IF a < 0 THEN -a ELSE a
Transparent == <<0, 0, 0, 0>>
Canvas(w, h, px) == [w |-> w, h |-> h, px |-> px]

\* a value stored into a Uint8ClampedArray or a canvas channel: the rational
\* num/den (den > 0) rounded to the nearest integer, ties to even, clamped
ToUint8Clamped(num, den) ==
  LET fl == num \div den
      r2 == 2 * (num - fl * den)
      n  == IF r2 < den THEN fl
            ELSE IF r2 > den THEN fl + 1
            ELSE IF fl % 2 = 0 THEN fl ELSE fl + 1
  IN  Max(0, Min(255, n))

MapPixels(c, F(_)) == Canvas(c.w, c.h, [k \in 1..Len(c.px) |-> F(c.px[k])])
MapRGB(c, F(_)) ==
  MapPixels(c, LAMBDA p : <<F(p[1]), F(p[2]), F(p[3]), p[4]>>)

\* a transform without the translations: the flip is about the origin, and the
\* image is drawn one pixel further along a flipped axis
GeometricAboutOrigin(img, rotation, flipX, flipY) ==
  LET w == img.w
      h == img.h
      Src(k) ==
        LET x  == (k - 1) % w
            y  == (k - 1) \div w
            sx == IF flipX THEN w - 2 - x ELSE x
            sy == IF flipY THEN h - 2 - y ELSE y
        IN  IF sx < 0 \/ sy < 0 THEN Transparent ELSE img.px[sy * w + sx + 1]
  IN  Canvas(w, h, [k \in 1..(w * h) |-> Src(k)])

\* ctx.translate(w/2, h/2); ctx.rotate(rotation); ctx.scale(flipX, flipY);
\* ctx.translate(-w/2, -h/2); ctx.drawImage(img, 0, 0) on a cleared canvas of
\* the image's size, for rotations by a multiple of 90 degrees: the source
\* pixel of each destination pixel, in doubled coordinates about the centre
Geometric(img, rotation, flipX, flipY) ==
  LET w == img.w
      h == img.h
      q == (rotation \div 90) % 4
      Src(k) ==
        LET u  == 2 * ((k - 1) % w) + 1 - w
            v  == 2 * ((k - 1) \div w) + 1 - h
            ru == CASE q = 0 -> u [] q = 1 -> v    [] q = 2 -> -u [] q = 3 -> -v
            rv == CASE q = 0 -> v [] q = 1 -> -u   [] q = 2 -> -v [] q = 3 -> u
            su == IF flipX THEN -ru ELSE ru
            sv == IF flipY THEN -rv ELSE rv
            x2 == su + w - 1
            y2 == sv + h - 1
        IN  IF x2 < 0 \/ y2 < 0 \/ x2 > 2 * (w - 1) \/ y2 > 2 * (h - 1)
              THEN Transparent
              ELSE img.px[(y2 \div 2) * w + (x2 \div 2) + 1]
  IN  Canvas(w, h, [k \in 1..(w * h) |-> Src(k)])

\* the transform maps pixel centres onto pixel centres (no resampling)
ExactGeometry(img, rotation) ==
  /\ rotation % 90 = 0
  /\ (rotation \div 90) % 2 = 1 => img.w = img.h

\* tempCanvas.width = canvas.width * scale: the attribute keeps the integer part
ScaledSize(n, pixelate) == n \div pixelate

\* drawImage of a canvas with a zero dimension throws InvalidStateError
PixelationThrows(c, pixelate) ==
  pixelate > 1 /\ (ScaledSize(c.w, pixelate) = 0 \/ ScaledSize(c.h, pixelate) = 0)

\* tempCtx.drawImage(canvas, 0, 0, tw, th): each temp pixel is the mean of the
\* block of canvas pixels it covers (sizes that divide exactly)
Downsample(c, tw, th) ==
  LET bw == c.w \div tw
      bh == c.h \div th
      Block(k) == { ((((k - 1) \div tw) * bh + dy) * c.w) + ((k - 1) % tw) * bw + dx + 1 :
                      dx \in 0..(bw - 1), dy \in 0..(bh - 1) }
      RECURSIVE Sum(_, _)
      Sum(S, ch) == IF S = {} THEN 0
                    ELSE LET i == CHOOSE i \in S : TRUE
                         IN  c.px[i][ch] + Sum(S \ {i}, ch)
      Mean(k, ch) == ToUint8Clamped(Sum(Block(k), ch), bw * bh)
  IN  Canvas(tw, th, [k \in 1..(tw * th) |->
                        <<Mean(k, 1), Mean(k, 2), Mean(k, 3), Mean(k, 4)>>])

\* ctx.drawImage(tempCanvas, 0, 0, tw, th, 0, 0, w, h): each canvas pixel
\* takes the temp pixel that covers it
Upsample(t, w, h) ==
  Canvas(w, h, [k \in 1..(w * h) |->
     t.px[((((k - 1) \div w) * t.h) \div h) * t.w + ((((k - 1) % w) * t.w) \div w) + 1]])

\* the sizes for which the two drawImage calls of the pixelation resample
\* whole blocks
ExactPixelation(img, pixelate) ==
  pixelate > 1 /\ ~PixelationThrows(img, pixelate)
    => img.w % pixelate = 0 /\ img.h % pixelate = 0

Pixelation(c, pixelate) ==
  IF pixelate > 1
    THEN Upsample(Downsample(c, ScaledSize(c.w, pixelate), ScaledSize(c.h, pixelate)),
                  c.w, c.h)
    ELSE c

\* the emboss loop over imageData.data, in place: pixel k (not the first of
\* its row) is computed from the already stored value of pixel k - 1
RECURSIVE EmbossLoop(_, _, _)
EmbossLoop(px, w, k) ==
  IF k > Len(px) THEN px
  ELSE IF (k - 1) % w = 0 THEN EmbossLoop(px, w, k + 1)
  ELSE LET factor == 2
           E(ch) == ToUint8Clamped(128 + factor * (px[k][ch] - px[k - 1][ch]), 1)
       IN  EmbossLoop([px EXCEPT ![k] = <<E(1), E(2), E(3), px[k][4]>>], w, k + 1)

Emboss(c, emboss) ==
  IF emboss THEN Canvas(c.w, c.h, EmbossLoop(c.px, c.w, 1)) ELSE c

\* a colour matrix with entries in 1/100000, applied to the r, g, b of a pixel
ColorMatrix(c, M) ==
  MapPixels(c, LAMBDA p :
    << ToUint8Clamped(M[1][1] * p[1] + M[1][2] * p[2] + M[1][3] * p[3], 100000),
       ToUint8Clamped(M[2][1] * p[1] + M[2][2] * p[2] + M[2][3] * p[3], 100000),
       ToUint8Clamped(M[3][1] * p[1] + M[3][2] * p[2] + M[3][3] * p[3], 100000),
       p[4] >>)

FilterBrightness(c, pct) == MapRGB(c, LAMBDA x : ToUint8Clamped(x * pct, 100))
FilterContrast(c, pct) ==
  MapRGB(c, LAMBDA x : ToUint8Clamped((2 * x - 255) * pct + 25500, 200))
\* blur(0px) draws the image unchanged
FilterBlur(c, radius) == c
FilterSaturate(c, pct) ==
  ColorMatrix(c, << <<21300 + 787 * pct, 71500 - 715 * pct, 7200 - 72 * pct>>,
                    <<21300 - 213 * pct, 71500 + 285 * pct, 7200 - 72 * pct>>,
                    <<21300 - 213 * pct, 71500 - 715 * pct, 7200 + 928 * pct>> >>)
FilterSepia(c, pct) ==
  LET q == 100 - Min(pct, 100)
  IN  ColorMatrix(c, << <<39300 + 607 * q, 76900 - 769 * q, 18900 - 189 * q>>,
                        <<34900 - 349 * q, 68600 + 314 * q, 16800 - 168 * q>>,
                        <<27200 - 272 * q, 53400 - 534 * q, 13100 + 869 * q>> >>)
\* hue-rotate by a multiple of 90 degrees: cos and sin are 0, 1 or -1
FilterHueRotate(c, deg) ==
  LET q  == (deg \div 90) % 4
      cs == CASE q = 0 -> 1 [] q = 1 -> 0 [] q = 2 -> -1 [] q = 3 -> 0
      sn == CASE q = 0 -> 0 [] q = 1 -> 1 [] q = 2 -> 0  [] q = 3 -> -1
  IN  ColorMatrix(c,
        << <<21300 + cs * 78700 - sn * 21300, 71500 - cs * 71500 - sn * 71500,
             7200 - cs * 7200 + sn * 92800>>,
           <<21300 - cs * 21300 + sn * 14300, 71500 + cs * 28500 + sn * 14000,
             7200 - cs * 7200 - sn * 28300>>,
           <<21300 - cs * 21300 - sn * 78700, 71500 - cs * 71500 + sn * 71500,
             7200 + cs * 92800 + sn * 7200>> >>)
FilterInvert(c) == MapRGB(c, LAMBDA x : 255 - x)
FilterGrayscale(c) ==
  ColorMatrix(c, << <<21260, 71520, 7220>>, <<21260, 71520, 7220>>,
                    <<21260, 71520, 7220>> >>)

\* tempCtx.filter = [brightness, contrast, blur, saturate, sepia, hue-rotate,
\* invert, grayscale].filter(Boolean).join(' '); tempCtx.drawImage(canvas, 0, 0)
ColorFilterChain(c, o) ==
  LET f1 == FilterBrightness(c, o.brightness)
      f2 == FilterContrast(f1, o.contrast)
      f3 == FilterBlur(f2, o.blur)
      f4 == FilterSaturate(f3, o.saturation)
      f5 == FilterSepia(f4, o.sepia)
      f6 == FilterHueRotate(f5, o.hueRotate)
      f7 == IF o.invert THEN FilterInvert(f6) ELSE f6
      f8 == IF o.grayscale THEN FilterGrayscale(f7) ELSE f7
  IN  f8

\* fillStyle = tintColor; globalCompositeOperation = 'multiply';
\* globalAlpha = tintIntensity / 100; fillRect over the whole canvas
TintOverlay(c, tintColor, tintIntensity) ==
  IF tintColor # "none"
    THEN MapPixels(c, LAMBDA p :
           << ToUint8Clamped(p[1] * ((100 - tintIntensity) * 255 + tintIntensity * tintColor[1]), 25500),
              ToUint8Clamped(p[2] * ((100 - tintIntensity) * 255 + tintIntensity * tintColor[2]), 25500),
              ToUint8Clamped(p[3] * ((100 - tintIntensity) * 255 + tintIntensity * tintColor[3]), 25500),
              p[4] >>)
    ELSE c

(***************************************************************************)
(* The export pipeline (processImage) and the preview pipeline             *)
(* (generatePreview), from the decoded image to the canvas that is encoded.*)
(***************************************************************************)
\* a CSS colour of the tint selector as <<r, g, b>>
ParseColor(color) ==
  CASE color = "#ff0000" -> <<255, 0, 0>>
    [] color = "#000000" -> <<0, 0, 0>>
    [] color = "#00ff00" -> <<0, 255, 0>>
    [] OTHER -> <<0, 0, 0>>

\* a tint stage that takes 'none' for a colour
TintWithoutGuard(c, o) ==
  TintOverlay(c, ParseColor(o.tintColor), o.tintIntensity)

Tint(c, o) ==
  TintOverlay(c, IF o.tintColor = "none" THEN "none" ELSE ParseColor(o.tintColor),
              o.tintIntensity)

Drawn(c) == [status |-> "ok", canvas |-> c]
Thrown == [status |-> "throws", canvas |-> Canvas(0, 0, <<>>)]
NotRun == [status |-> "none", canvas |-> Canvas(0, 0, <<>>)]

\* processImage, lines 70-154: canvas and tempCanvas as the code leaves them
processImageEmbossFirst(img, o) ==
  LET canvas0 == Geometric(img, o.rotation, o.flipX, o.flipY)
      canvas1 == Emboss(canvas0, o.emboss)
      canvas2 == Pixelation(canvas1, o.pixelate)
      tempCanvas0 == ColorFilterChain(canvas2, o)
      tempCanvas1 == Tint(tempCanvas0, o)
  IN  IF PixelationThrows(canvas1, o.pixelate) THEN Thrown ELSE Drawn(tempCanvas1)

processImage(img, o) ==
  LET canvas0 == Geometric(img, o.rotation, o.flipX, o.flipY)
      canvas1 == Pixelation(canvas0, o.pixelate)
      canvas2 == Emboss(canvas1, o.emboss)
      tempCanvas0 == ColorFilterChain(canvas2, o)
      tempCanvas1 == Tint(tempCanvas0, o)
  IN  IF PixelationThrows(canvas0, o.pixelate) THEN Thrown ELSE Drawn(tempCanvas1)

\* generatePreview, lines 45-136
generatePreview(img, o) ==
  LET canvas0 == Geometric(img, o.rotation, o.flipX, o.flipY)
      canvas1 == Pixelation(canvas0, o.pixelate)
      canvas2 == Emboss(canvas1, o.emboss)
      canvas3 == Tint(canvas2, o)
      tempCanvas == ColorFilterChain(canvas3, o)
  IN  IF PixelationThrows(canvas0, o.pixelate) THEN Thrown ELSE Drawn(tempCanvas)

Opaque(r, g, b) == <<r, g, b, 255>>
ImageCatalogue ==
  { Canvas(2, 2, <<Opaque(200, 40, 40), Opaque(30, 180, 60),
                   Opaque(20, 60, 220), Opaque(250, 250, 250)>>),
    Canvas(2, 1, <<Opaque(10, 120, 240), Opaque(130, 130, 130)>>),
    Canvas(4, 2, <<Opaque(255, 0, 0), Opaque(200, 100, 0), Opaque(0, 0, 0), Opaque(90, 90, 200),
                   Opaque(0, 255, 0), Opaque(50, 50, 50), Opaque(255, 255, 255), Opaque(7, 77, 177)>>) }

NeutralFilters ==
  [brightness |-> 100, contrast |-> 100, blur |-> 0, saturation |-> 100,
   sepia |-> 0, hueRotate |-> 0, invert |-> FALSE, grayscale |-> FALSE]

FilterCatalogue ==
  { NeutralFilters,
    [NeutralFilters EXCEPT !.brightness = 150],
    [NeutralFilters EXCEPT !.contrast = 50],
    [NeutralFilters EXCEPT !.saturation = 0],
    [NeutralFilters EXCEPT !.sepia = 100],
    [NeutralFilters EXCEPT !.hueRotate = 180],
    [NeutralFilters EXCEPT !.invert = TRUE],
    [NeutralFilters EXCEPT !.grayscale = TRUE],
    [NeutralFilters EXCEPT !.brightness = 50, !.invert = TRUE, !.hueRotate = 360] }

TintCatalogue ==
  { [tintColor |-> "none", tintIntensity |-> 50],
    [tintColor |-> "none", tintIntensity |-> 100],
    [tintColor |-> "#ff0000", tintIntensity |-> 50],
    [tintColor |-> "#000000", tintIntensity |-> 100] }

RotationValues == {0, 90, 180, 360}
PixelateValues == {1, 2, 3}

EffectOptions(f, t, rotation, flipX, flipY, pixelate, emboss) ==
  [brightness |-> f.brightness, contrast |-> f.contrast, blur |-> f.blur,
   saturation |-> f.saturation, sepia |-> f.sepia, hueRotate |-> f.hueRotate,
   invert |-> f.invert, grayscale |-> f.grayscale,
   tintColor |-> t.tintColor, tintIntensity |-> t.tintIntensity,
   rotation |-> rotation, flipX |-> flipX, flipY |-> flipY,
   pixelate |-> pixelate, emboss |-> emboss]

EffectOptionsSpace ==
  { EffectOptions(f, t, rotation, flipX, flipY, pixelate, emboss) :
      f \in FilterCatalogue, t \in TintCatalogue, rotation \in RotationValues,
      flipX \in BOOLEAN, flipY \in BOOLEAN, pixelate \in PixelateValues,
      emboss \in BOOLEAN }

PipelineInit ==
  /\ image \in ImageCatalogue
  /\ effects \in EffectOptionsSpace
  /\ ExactGeometry(image, effects.rotation)
  /\ ExactPixelation(image, effects.pixelate)
  /\ exported = NotRun
  /\ previewed = NotRun

\* the canvas work of one processImage call
RunProcessImage ==
  /\ exported = NotRun
  /\ exported' = processImage(image, effects)
  /\ UNCHANGED <<image, effects, previewed>>
  /\ UNCHANGED notPipeline

\* one generatePreview call
RunGeneratePreview ==
  /\ previewed = NotRun
  /\ previewed' = generatePreview(image, effects)
  /\ UNCHANGED <<image, effects, exported>>
  /\ UNCHANGED notPipeline

\* the variables of the pipeline while another component is observed
PipelineIdle ==
  /\ image = Canvas(0, 0, <<>>)
  /\ effects = <<>>
  /\ exported = NotRun
  /\ previewed = NotRun

(***************************************************************************)
(* usePreviewEffect.  Every run of the effect is a closure with its own    *)
(* isMounted, currentObjectUrl, debounce timer and captured props; the     *)
(* closures of superseded runs stay in `runs` while their async work is    *)
(* in flight.  A preview data URL is identified with the canvas it encodes.*)
(***************************************************************************)
NoSource == [present |-> FALSE, decodable |-> FALSE, bitmap |-> Canvas(0, 0, <<>>)]
SourceFile(decodable, bitmap) ==
  [present |-> TRUE, decodable |-> decodable, bitmap |-> bitmap]

SourceCatalogue ==
  { NoSource,
    SourceFile(TRUE, Canvas(2, 1, <<Opaque(10, 120, 240), Opaque(130, 130, 130)>>)),
    SourceFile(FALSE, Canvas(0, 0, <<>>)) }

DefaultSettings ==
  EffectOptions(NeutralFilters, [tintColor |-> "none", tintIntensity |-> 50],
                0, FALSE, FALSE, 1, FALSE)

SettingsCatalogue ==
  { DefaultSettings,
    [DefaultSettings EXCEPT !.invert = TRUE],
    [DefaultSettings EXCEPT !.tintIntensity = 80],
    [DefaultSettings EXCEPT !.pixelate = 2] }

\* generatePreview(img) for every image that loads and every value of the
\* settings, computed once
PreviewTable ==
  [ source \in {src \in SourceCatalogue : src.decodable}, opts \in SettingsCatalogue |->
      generatePreview(source.bitmap, opts) ]

\* a run of the effect that never calls updatePreview()
EffectRunNotScheduled(source, opts, url, submission) ==
  [ sourceImage |-> source, settings |-> opts, previewUrl |-> url,
    submission |-> submission, isMounted |-> TRUE, timer |-> "cancelled",
    pc |-> "cancelled", currentObjectUrl |-> "null", result |-> NotRun ]

\* the closure created by one run of the effect
EffectRun(source, opts, url, submission) ==
  [ sourceImage |-> source, settings |-> opts, previewUrl |-> url,
    submission |-> submission, isMounted |-> TRUE, timer |-> "pending",
    pc |-> "debounce", currentObjectUrl |-> "null", result |-> NotRun ]

LiveRun == Len(runs)

\* a cleanup that forgets updatePreview.cancel()
CleanupKeepsTimer(run) ==
  [run EXCEPT !.isMounted = FALSE,
              !.currentObjectUrl = IF @ = "live" THEN "revoked" ELSE @]

\* the cleanup function of a run: isMounted = false; updatePreview.cancel();
\* revoke currentObjectUrl if it is set
Cleanup(run) ==
  [run EXCEPT !.isMounted = FALSE,
              !.timer = IF @ = "pending" THEN "cancelled" ELSE @,
              !.pc = IF run.timer = "pending" THEN "cancelled" ELSE @,
              !.currentObjectUrl = IF @ = "live" THEN "revoked" ELSE @]

\* a render with changed effect dependencies: the cleanup of the live run,
\* then a new run of the effect with the props of this render
Rerender(rs, source, opts, url, submission) ==
  Append([rs EXCEPT ![Len(rs)] = Cleanup(rs[Len(rs)])],
         EffectRun(source, opts, url, submission))

\* if (isMounted) setPreviewUrl(newPreviewUrl)
MayCommitAlways(run) == TRUE

MayCommit(run) == run.isMounted

\* finally { if (currentObjectUrl) { revokeObjectURL; currentObjectUrl = null } }
Finally(run) ==
  [run EXCEPT !.currentObjectUrl = IF @ = "live" THEN "revoked" ELSE @]

PreviewInit ==
  /\ sourceImage = NoSource
  /\ settings = DefaultSettings
  /\ previewUrl = NotRun
  /\ submissions = 0
  /\ runs = <<EffectRun(NoSource, DefaultSettings, NotRun, 0)>>
  /\ commits = <<>>
  /\ notices = 0
  /\ mounted = TRUE

\* the user changes an effect parameter: generatePreview is a new callback
SubmitSettings ==
  \E s \in SettingsCatalogue \ {settings} :
    /\ mounted
    /\ Len(runs) < MaxRuns
    /\ settings' = s
    /\ submissions' = submissions + 1
    /\ runs' = Rerender(runs, sourceImage, s, previewUrl, submissions + 1)
    /\ UNCHANGED <<sourceImage, previewUrl, commits, notices, mounted>>
    /\ UNCHANGED notPreview

\* handleImageDrop, or onRemove of the preview
SubmitSource ==
  \E src \in SourceCatalogue \ {sourceImage} :
    /\ mounted
    /\ Len(runs) < MaxRuns
    /\ sourceImage' = src
    /\ submissions' = submissions + 1
    /\ runs' = Rerender(runs, src, settings, previewUrl, submissions + 1)
    /\ UNCHANGED <<settings, previewUrl, commits, notices, mounted>>
    /\ UNCHANGED notPreview

\* setPreviewUrl(url) by run r: a changed previewUrl re-renders and re-runs
\* the effect, an equal one does nothing
SetPreviewUrl(r, rs, url) ==
  /\ previewUrl' = url
  /\ commits' = Append(commits, [run |-> r, at |-> submissions, url |-> url])
  /\ runs' = IF url # previewUrl /\ mounted
               THEN Rerender(rs, sourceImage, settings, url, submissions)
               ELSE rs

\* the debounce timer of run r fires: updatePreview up to its first await
TimerFires ==
  \E r \in 1..Len(runs) :
    /\ runs[r].timer = "pending"
    /\ IF ~runs[r].sourceImage.present
         THEN /\ (previewUrl # NotRun) => Len(runs) < MaxRuns
              /\ SetPreviewUrl(r, [runs EXCEPT ![r].timer = "fired", ![r].pc = "cleared"],
                               NotRun)
         ELSE /\ runs' = [runs EXCEPT ![r].timer = "fired", ![r].pc = "loading",
                                      ![r].currentObjectUrl = "live"]
              /\ UNCHANGED <<previewUrl, commits>>
    /\ UNCHANGED <<sourceImage, settings, submissions, notices, mounted>>
    /\ UNCHANGED notPreview

\* img.onload of run r: generatePreview(img) runs its canvas work
ImageLoaded ==
  \E r \in 1..Len(runs) :
    /\ runs[r].pc = "loading"
    /\ runs[r].sourceImage.decodable
    /\ runs' = [runs EXCEPT ![r].pc = "generating",
                  ![r].result = PreviewTable[runs[r].sourceImage, runs[r].settings]]
    /\ UNCHANGED <<sourceImage, settings, previewUrl, submissions, commits,
                   notices, mounted>>
    /\ UNCHANGED notPreview

\* a catch block that also clears the preview
PreviewCatchClears(r) ==
  /\ notices' = notices + 1
  /\ runs' = [runs EXCEPT ![r] = Finally([@ EXCEPT !.pc = "failed"])]
  /\ previewUrl' = NotRun
  /\ UNCHANGED commits

\* catch { toast.error } finally { ... }
PreviewCatch(r) ==
  /\ notices' = notices + 1
  /\ runs' = [runs EXCEPT ![r] = Finally([@ EXCEPT !.pc = "failed"])]
  /\ UNCHANGED <<previewUrl, commits>>

\* img.onerror of run r: the file does not decode, or its object URL was
\* revoked by the cleanup while it was loading
ImageError ==
  \E r \in 1..Len(runs) :
    /\ runs[r].pc = "loading"
    /\ ~runs[r].sourceImage.decodable \/ runs[r].currentObjectUrl = "revoked"
    /\ PreviewCatch(r)
    /\ UNCHANGED <<sourceImage, settings, submissions, mounted>>
    /\ UNCHANGED notPreview

\* the await of generatePreview completes in run r
PreviewGenerated ==
  \E r \in 1..Len(runs) :
    /\ runs[r].pc = "generating"
    /\ IF runs[r].result.status = "throws"
         THEN PreviewCatch(r)
         ELSE IF MayCommit(runs[r])
           THEN /\ (runs[r].result # previewUrl) => Len(runs) < MaxRuns
                /\ SetPreviewUrl(r, [runs EXCEPT ![r] = Finally([@ EXCEPT !.pc = "committed"])],
                                 runs[r].result)
                /\ UNCHANGED notices
           ELSE /\ runs' = [runs EXCEPT ![r] = Finally([@ EXCEPT !.pc = "dropped"])]
                /\ UNCHANGED <<previewUrl, commits, notices>>
    /\ UNCHANGED <<sourceImage, settings, submissions, mounted>>
    /\ UNCHANGED notPreview

\* the component unmounts: the cleanup of the live run
Unmount ==
  /\ mounted
  /\ mounted' = FALSE
  /\ runs' = [runs EXCEPT ![LiveRun] = Cleanup(@)]
  /\ UNCHANGED <<sourceImage, settings, previewUrl, submissions, commits, notices>>
  /\ UNCHANGED notPreview

\* the variables of the preview while another component is observed
PreviewIdle ==
  /\ sourceImage = NoSource
  /\ settings = <<>>
  /\ previewUrl = NotRun
  /\ submissions = 0
  /\ runs = <<>>
  /\ commits = <<>>
  /\ notices = 0
  /\ mounted = FALSE

(***************************************************************************)
(* AdvancedEffects.applyAdvancedEffects.  The function keeps two buffers:  *)
(* the canvas, and `data`, the pixel array read from the canvas by         *)
(* getImageData before any effect runs.                                    *)
(***************************************************************************)
\* hexToRgb
hexToRgb(hex) ==
  CASE hex = "#ffeb3b" -> <<255, 235, 59>>
    [] hex = "#3f51b5" -> <<63, 81, 181>>
    [] hex = "#ff0000" -> <<255, 0, 0>>
    [] OTHER -> <<0, 0, 0>>

\* Math.random() - 0.5 times noiseAmount, in halves: the draws of one pixel
NoiseDraws(noiseAmount) == (-noiseAmount)..(noiseAmount - 1)

\* a noise of twice the amplitude: (Math.random() - 0.5) * 2 * noiseAmount
NoiseDoubled(px, noiseAmount, noise) ==
  IF noiseAmount > 0
    THEN [k \in 1..Len(px) |->
            << ToUint8Clamped(Min(510, Max(0, 2 * px[k][1] + 2 * noise[k])), 2),
               ToUint8Clamped(Min(510, Max(0, 2 * px[k][2] + 2 * noise[k])), 2),
               ToUint8Clamped(Min(510, Max(0, 2 * px[k][3] + 2 * noise[k])), 2),
               px[k][4] >>]
    ELSE px

\* data[i] = Math.min(255, Math.max(0, data[i] + noise)) for r, g, b, the
\* same noise for the three channels of a pixel; noise[k] is in halves
Noise(px, noiseAmount, noise) ==
  IF noiseAmount > 0
    THEN [k \in 1..Len(px) |->
            << ToUint8Clamped(Min(510, Max(0, 2 * px[k][1] + noise[k])), 2),
               ToUint8Clamped(Min(510, Max(0, 2 * px[k][2] + noise[k])), 2),
               ToUint8Clamped(Min(510, Max(0, 2 * px[k][3] + noise[k])), 2),
               px[k][4] >>]
    ELSE px

Uniform(c) == \A k \in 1..Len(c.px) : c.px[k] = c.px[1] /\ c.px[k][4] = 255

\* the rotated copies of a uniform opaque canvas, drawn over one another and
\* then over the canvas, leave it as it is
ExactKaleidoscope(img, kaleidoscope) == kaleidoscope > 0 => Uniform(img)

\* the first of the Math.floor(kaleidoscope * 8) + 2 segments is drawn
\* unrotated and covers tempCanvas; on the uniform canvases admitted by
\* ExactKaleidoscope every later segment, and the final drawImage, paint a
\* colour over itself
Kaleidoscope(c, kaleidoscope) == c

\* ctx.scale(-1, 1); ctx.drawImage(canvas, -w, 0) mirrors the canvas left to
\* right.  The transform is not restored: with 'both' the second drawImage,
\* under scale(-1, -1), falls outside the canvas
Mirror(c, mirror, mirrorAxis) ==
  IF ~mirror THEN c
  ELSE IF mirrorAxis = "vertical" \/ mirrorAxis = "both"
    THEN Geometric(c, 0, TRUE, FALSE)
    ELSE Geometric(c, 0, FALSE, TRUE)

\* rgbToHsl(r, g, b)[0] as the fraction <<numerator, denominator>> of degrees
Hue(r, g, b) ==
  LET max == Max(r, Max(g, b))
      min == Min(r, Min(g, b))
      d   == max - min
  IN  IF max = min THEN <<0, 1>>
      ELSE IF max = r THEN <<60 * ((g - b) + (IF g < b THEN 6 * d ELSE 0)), d>>
      ELSE IF max = g THEN <<60 * ((b - r) + 2 * d), d>>
      ELSE <<60 * ((r - g) + 4 * d), d>>

\* a test of the plain difference of the hues
OutOfHueRangeLinear(p, targetHue, hueTolerance) ==
  LET h == Hue(p[1], p[2], p[3])
      hueDiff == Abs(h[1] - targetHue * h[2])
  IN  hueDiff > hueTolerance * h[2]

\* hueDiff > hueTolerance && (360 - hueDiff) > hueTolerance
OutOfHueRange(p, targetHue, hueTolerance) ==
  LET h == Hue(p[1], p[2], p[3])
      hueDiff == Abs(h[1] - targetHue * h[2])
  IN  hueDiff > hueTolerance * h[2] /\ (360 * h[2] - hueDiff) > hueTolerance * h[2]

ColorSplash(px, colorSplash, targetHue, hueTolerance) ==
  IF colorSplash
    THEN [k \in 1..Len(px) |->
            IF OutOfHueRange(px[k], targetHue, hueTolerance)
              THEN LET gray == ToUint8Clamped(2126 * px[k][1] + 7152 * px[k][2]
                                                + 722 * px[k][3], 10000)
                   IN  <<gray, gray, gray, px[k][4]>>
              ELSE px[k]]
    ELSE px

\* Math.floor(canvas.height / 20) and Math.floor(glitchIntensity * 5)
SliceHeight(c) == c.h \div 20
NumSlices(glitchIntensity) == glitchIntensity * 5
\* Math.floor((Math.random() - 0.5) * glitchIntensity * 50)
GlitchOffsets(glitchIntensity) == (-(25 * glitchIntensity))..(25 * glitchIntensity - 1)

\* one offset for every outcome of putImageData: the offsets of at least the
\* canvas width all place the slice outside the canvas
GlitchOffsetClasses(c, glitchIntensity) ==
  {offset \in GlitchOffsets(glitchIntensity) : Abs(offset) <= c.w}

\* getImageData(0, y, w, 0) throws IndexSizeError
GlitchThrows(c, glitchIntensity) == glitchIntensity > 0 /\ SliceHeight(c) = 0

\* sliceData = ctx.getImageData(0, y, w, sliceHeight);
\* ctx.putImageData(sliceData, offset, y)
GlitchSlice(c, y, offset) ==
  Canvas(c.w, c.h, [k \in 1..(c.w * c.h) |->
    LET x   == (k - 1) % c.w
        row == (k - 1) \div c.w
    IN  IF row >= y /\ row < y + SliceHeight(c) /\ x - offset >= 0 /\ x - offset < c.w
          THEN c.px[row * c.w + (x - offset) + 1]
          ELSE c.px[k]])

\* data[i] = Math.pow(data[i] / 255, gamma) * 255, for gamma 1, 2 or 3
RECURSIVE Power(_, _)
Power(x, n) == IF n = 0 THEN 1 ELSE x * Power(x, n - 1)

\* a correction that runs for every gamma and divides the channel by 256
GammaOver256(px, gamma) ==
  [k \in 1..Len(px) |->
     << ToUint8Clamped(255 * Power(px[k][1], gamma), Power(256, gamma)),
        ToUint8Clamped(255 * Power(px[k][2], gamma), Power(256, gamma)),
        ToUint8Clamped(255 * Power(px[k][3], gamma), Power(256, gamma)),
        px[k][4] >>]

Gamma(px, gamma) ==
  IF gamma # 1
    THEN [k \in 1..Len(px) |->
            << ToUint8Clamped(Power(px[k][1], gamma), Power(255, gamma - 1)),
               ToUint8Clamped(Power(px[k][2], gamma), Power(255, gamma - 1)),
               ToUint8Clamped(Power(px[k][3], gamma), Power(255, gamma - 1)),
               px[k][4] >>]
    ELSE px

ColorBalance(px, colorBalance) ==
  IF colorBalance.r # 0 \/ colorBalance.g # 0 \/ colorBalance.b # 0
    THEN [k \in 1..Len(px) |->
            << Min(255, Max(0, px[k][1] + colorBalance.r)),
               Min(255, Max(0, px[k][2] + colorBalance.g)),
               Min(255, Max(0, px[k][3] + colorBalance.b)),
               px[k][4] >>]
    ELSE px

\* brightness = (r + g + b) / (3 * 255) > 0.5 blends with the highlight
\* colour, otherwise with the shadow colour
SplitToning(px, splitToning, highlightColor, shadowColor) ==
  IF splitToning
    THEN LET highlights == hexToRgb(highlightColor)
             shadows == hexToRgb(shadowColor)
         IN  [k \in 1..Len(px) |->
               LET tone == IF 2 * (px[k][1] + px[k][2] + px[k][3]) > 3 * 255
                             THEN highlights ELSE shadows
               IN  << ToUint8Clamped(px[k][1] + tone[1], 2),
                      ToUint8Clamped(px[k][2] + tone[2], 2),
                      ToUint8Clamped(px[k][3] + tone[3], 2),
                      px[k][4] >>]
    ELSE px

TallImage ==
  Canvas(2, 20, [k \in 1..40 |-> IF k = 1 THEN Opaque(240, 30, 30) ELSE Opaque(40, 40, 200)])

AdvancedImageCatalogue ==
  { Canvas(2, 1, <<Opaque(230, 40, 60), Opaque(20, 200, 90)>>),
    Canvas(2, 1, <<Opaque(120, 200, 250), Opaque(120, 200, 250)>>),
    TallImage }

MirrorCatalogue ==
  { [mirror |-> FALSE, mirrorAxis |-> "vertical"],
    [mirror |-> TRUE, mirrorAxis |-> "vertical"],
    [mirror |-> TRUE, mirrorAxis |-> "horizontal"],
    [mirror |-> TRUE, mirrorAxis |-> "both"] }

ColorBalanceCatalogue == { [r |-> 0, g |-> 0, b |-> 0], [r |-> 20, g |-> 0, b |-> -20] }

AdvancedSettings(noiseAmount, kaleidoscope, m, colorSplash, glitchIntensity, gamma, colorBalance, splitToning) ==
  [ noiseAmount |-> noiseAmount, kaleidoscope |-> kaleidoscope,
    mirror |-> m.mirror, mirrorAxis |-> m.mirrorAxis,
    colorSplash |-> colorSplash, targetHue |-> 0, hueTolerance |-> 20,
    glitchIntensity |-> glitchIntensity, gamma |-> gamma,
    colorBalance |-> colorBalance, splitToning |-> splitToning,
    highlightColor |-> "#ffeb3b", shadowColor |-> "#3f51b5" ]

AdvancedSettingsSpace ==
  { AdvancedSettings(noiseAmount, kaleidoscope, m, colorSplash, glitchIntensity,
                     gamma, colorBalance, splitToning) :
      noiseAmount \in {0, 2}, kaleidoscope \in {0, 1}, m \in MirrorCatalogue,
      colorSplash \in BOOLEAN, glitchIntensity \in {0, 1}, gamma \in {1, 2},
      colorBalance \in ColorBalanceCatalogue, splitToning \in BOOLEAN }

\* one call of applyAdvancedEffects awaiting createImageBitmap
Application ==
  [ pc |-> "bitmap", canvas |-> Canvas(0, 0, <<>>), data |-> <<>>, slice |-> 0,
    composed |-> Canvas(0, 0, <<>>), out |-> Canvas(0, 0, <<>>) ]

AdvancedInit ==
  /\ advSource \in AdvancedImageCatalogue
  /\ advEffects \in AdvancedSettingsSpace
  /\ ExactKaleidoscope(advSource, advEffects.kaleidoscope)
  /\ advEffects.kaleidoscope > 0 => advEffects.noiseAmount = 0
  /\ advEffects.noiseAmount > 0 => advSource.w * advSource.h <= MaxNoisePixels
  /\ applications = <<>>

\* applyAdvancedEffects is called (the effect of AdvancedEffects, or a second
\* call with the same image and settings)
ApplyAdvancedEffects ==
  /\ Len(applications) < MaxApplications
  /\ \A a \in 1..Len(applications) : applications[a].pc \in {"done", "threw"}
  /\ applications' = Append(applications, Application)
  /\ UNCHANGED <<advSource, advEffects>>
  /\ UNCHANGED notAdvanced

\* createImageBitmap resolves: the canvas is drawn, data is read from it, and
\* noise, kaleidoscope, mirror and colour splash run.  `composed` is the
\* single buffer on which every effect reads the result of the one before.
EffectsBeforeGlitch ==
  \E a \in 1..Len(applications) :
    \E noise \in [1..(advSource.w * advSource.h) -> NoiseDraws(advEffects.noiseAmount) \cup {0}] :
      LET e       == advEffects
          canvas0 == advSource
          data0   == canvas0.px
          data1   == Noise(data0, e.noiseAmount, noise)
          canvas1 == Kaleidoscope(canvas0, e.kaleidoscope)
          canvas2 == Mirror(canvas1, e.mirror, e.mirrorAxis)
          data2   == ColorSplash(data1, e.colorSplash, e.targetHue, e.hueTolerance)
          c1      == Canvas(canvas0.w, canvas0.h, Noise(canvas0.px, e.noiseAmount, noise))
          c2      == Kaleidoscope(c1, e.kaleidoscope)
          c3      == Mirror(c2, e.mirror, e.mirrorAxis)
          c4      == Canvas(c3.w, c3.h,
                            ColorSplash(c3.px, e.colorSplash, e.targetHue, e.hueTolerance))
      IN  /\ applications[a].pc = "bitmap"
          /\ e.noiseAmount = 0 => \A k \in DOMAIN noise : noise[k] = 0
          /\ applications' = [applications EXCEPT ![a] =
               [@ EXCEPT !.pc = IF GlitchThrows(canvas2, e.glitchIntensity)
                                  THEN "threw" ELSE "glitch",
                         !.canvas = canvas2, !.data = data2, !.composed = c4]]
          /\ UNCHANGED <<advSource, advEffects>>
          /\ UNCHANGED notAdvanced

\* one iteration of the glitch loop
GlitchIteration ==
  \E a \in 1..Len(applications) :
    \E y \in 0..(advSource.h - 1), offset \in GlitchOffsetClasses(advSource, advEffects.glitchIntensity) :
      /\ applications[a].pc = "glitch"
      /\ advEffects.glitchIntensity > 0
      /\ applications[a].slice < NumSlices(advEffects.glitchIntensity)
      /\ applications' = [applications EXCEPT ![a] =
           [@ EXCEPT !.slice = @ + 1,
                     !.canvas = GlitchSlice(@, y, offset),
                     !.composed = GlitchSlice(@, y, offset)]]
      /\ UNCHANGED <<advSource, advEffects>>
      /\ UNCHANGED notAdvanced

\* gamma, colour balance and split toning on data; then
\* ctx.putImageData(imageData, 0, 0) and canvas.toBlob
EffectsAfterGlitch ==
  \E a \in 1..Len(applications) :
    LET e     == advEffects
        app   == applications[a]
        After(px) == SplitToning(ColorBalance(Gamma(px, e.gamma), e.colorBalance),
                                 e.splitToning, e.highlightColor, e.shadowColor)
        data5 == After(app.data)
    IN  /\ app.pc = "glitch"
        /\ e.glitchIntensity > 0 => app.slice = NumSlices(e.glitchIntensity)
        /\ applications' = [applications EXCEPT ![a] =
             [@ EXCEPT !.pc = "done", !.data = data5,
                       !.canvas = Canvas(app.canvas.w, app.canvas.h, data5),
                       !.out = Canvas(app.canvas.w, app.canvas.h, data5),
                       !.composed = Canvas(app.composed.w, app.composed.h,
                                           After(app.composed.px))]]
        /\ UNCHANGED <<advSource, advEffects>>
        /\ UNCHANGED notAdvanced

\* gamma is 1 and every other effect is off
OnlyGammaOne(e) ==
  /\ e.gamma = 1
  /\ e.noiseAmount = 0 /\ e.kaleidoscope = 0 /\ ~e.mirror /\ ~e.colorSplash
  /\ e.glitchIntensity = 0 /\ ~e.splitToning
  /\ e.colorBalance = [r |-> 0, g |-> 0, b |-> 0]

\* C23: with gamma = 1 and every other advanced effect disabled,
\* applyAdvancedEffects leaves red, green, blue and alpha of every pixel
\* unchanged.
C23_GammaOneIsIdentity ==
  \A a \in 1..Len(applications) :
    (applications[a].pc = "done" /\ OnlyGammaOne(advEffects))
      => applications[a].out = advSource

\* a finished call with gamma 1 and nothing else on a picture of two colours
C23_GammaOneRun ==
  /\ OnlyGammaOne(advEffects)
  /\ Len(applications) >= 1
  /\ applications[1].pc = "done"
  /\ advSource.px[1] # advSource.px[2]

\* the variables of the advanced effects while another component is observed
AdvancedIdle ==
  /\ advSource = Canvas(0, 0, <<>>)
  /\ advEffects = <<>>
  /\ applications = <<>>

(***************************************************************************)
(* The preview of AdvancedEffects: the effect at MatrixBackground.tsx      *)
(* 905-915 starts one updatePreview call for every change of sourceImage   *)
(* or of applyAdvancedEffects, and never cancels one.                      *)
(***************************************************************************)
\* the file applyAdvancedEffects returns when neither noise nor glitch is on:
\* the pixels of `data` written back by the final putImageData
AdvancedOutput(img, e) ==
  Canvas(img.w, img.h,
         SplitToning(ColorBalance(Gamma(ColorSplash(img.px, e.colorSplash, e.targetHue,
                                                    e.hueTolerance),
                                        e.gamma), e.colorBalance),
                     e.splitToning, e.highlightColor, e.shadowColor))

AdvancedPreviewSource == Canvas(2, 1, <<Opaque(230, 40, 60), Opaque(20, 200, 90)>>)

AdvancedDefaults ==
  AdvancedSettings(0, 0, [mirror |-> FALSE, mirrorAxis |-> "vertical"], FALSE, 0, 1, [r |-> 0, g |-> 0, b |-> 0], FALSE)

AdvancedPreviewSettings ==
  { AdvancedDefaults,
    [AdvancedDefaults EXCEPT !.colorSplash = TRUE],
    [AdvancedDefaults EXCEPT !.splitToning = TRUE],
    [AdvancedDefaults EXCEPT !.mirror = TRUE] }

NoPreview == [run |-> 0, file |-> Canvas(0, 0, <<>>)]

\* one call of updatePreview, awaiting createImageBitmap; url is the state of
\* the object URL of the call: "none" before URL.createObjectURL, then "live"
\* until URL.revokeObjectURL makes it "revoked"
AdvancedRun(e) ==
  [settings |-> e, pc |-> "bitmap", out |-> Canvas(0, 0, <<>>), url |-> "none"]

AdvPreviewInit ==
  /\ advParams = AdvancedDefaults
  /\ advRuns = <<AdvancedRun(AdvancedDefaults)>>
  /\ advPreviewUrl = NoPreview
  /\ advCommits = <<>>

\* a setter of an effect parameter: applyAdvancedEffects is a new callback and
\* the effect calls updatePreview()
SetAdvancedParameter ==
  \E e \in AdvancedPreviewSettings \ {advParams} :
    /\ Len(advRuns) < MaxAdvancedRuns
    /\ advParams' = e
    /\ advRuns' = Append(advRuns, AdvancedRun(e))
    /\ UNCHANGED <<advPreviewUrl, advCommits>>
    /\ UNCHANGED notAdvPreview

\* createImageBitmap resolves in run r: the effects run up to the await of
\* canvas.toBlob
AdvancedBitmapCreated ==
  \E r \in 1..Len(advRuns) :
    /\ advRuns[r].pc = "bitmap"
    /\ advRuns' = [advRuns EXCEPT ![r].pc = "toBlob",
                      ![r].out = AdvancedOutput(AdvancedPreviewSource, advRuns[r].settings)]
    /\ UNCHANGED <<advParams, advPreviewUrl, advCommits>>
    /\ UNCHANGED notAdvPreview

\* canvas.toBlob calls back in run r: url = URL.createObjectURL(processedFile);
\* setPreviewUrl(url).  The function returned next, which would revoke the
\* URL, is the value of the promise of updatePreview(); the effect drops the
\* promise and has no cleanup, so the function is never called.
AdvancedBlobReady ==
  \E r \in 1..Len(advRuns) :
    /\ advRuns[r].pc = "toBlob"
    /\ advRuns' = [advRuns EXCEPT ![r].pc = "done", ![r].url = "live"]
    /\ advPreviewUrl' = [run |-> r, file |-> advRuns[r].out]
    /\ advCommits' = Append(advCommits, r)
    /\ UNCHANGED advParams
    /\ UNCHANGED notAdvPreview

\* the variables of the AdvancedEffects preview while another component is
\* observed
AdvPreviewIdle ==
  /\ advParams = <<>>
  /\ advRuns = <<>>
  /\ advPreviewUrl = NoPreview
  /\ advCommits = <<>>

(***************************************************************************)
(* validateImage and the entry of processImage, on one file.               *)
(***************************************************************************)
SizeCatalogue ==
  {0, 1, 1000, MAX_FILE_SIZE - 1, MAX_FILE_SIZE, MAX_FILE_SIZE + 1, 2 * MAX_FILE_SIZE}

\* file.type as <<text before the "/", text after it>>
TypeCatalogue ==
  { <<"image", "png">>, <<"image", "jpeg">>, <<"image", "webp">>, <<"image", "gif">>,
    <<"image", "bmp">>, <<"image", "tiff">>, <<"image", "svg+xml">>,
    <<"image", "x-icon">>, <<"application", "pdf">>, <<"", "">> }

\* the accepted families of the input contract
SupportedTypes ==
  { <<"image", "png">>, <<"image", "jpeg">>, <<"image", "webp">>, <<"image", "gif">>,
    <<"image", "bmp">>, <<"image", "tiff">>, <<"image", "avif">> }

ValidationInit ==
  /\ candidate \in {NoFile} \cup
       { File(<<"file">>, size, type, TRUE) : size \in SizeCatalogue, type \in TypeCatalogue }
  /\ verdict = "none"
  /\ attempt = "none"

\* validateImage(file)
CallValidateImage ==
  /\ verdict = "none"
  /\ verdict' = IF validateImage(candidate) THEN "accepted" ELSE "rejected"
  /\ UNCHANGED <<candidate, attempt>>
  /\ UNCHANGED notValidation

\* processImage(file, options) up to the canvas work: throws 'Invalid image'
\* before the try block, or creates the canvas
CallProcessImage ==
  /\ attempt = "none"
  /\ attempt' = IF ~validateImage(candidate) THEN "invalid" ELSE "canvas"
  /\ UNCHANGED <<candidate, verdict>>
  /\ UNCHANGED notValidation

\* the variables of the validation while another component is observed
ValidationIdle ==
  /\ candidate = NoFile
  /\ verdict = "none"
  /\ attempt = "none"

\* the file is present, of at most 25MB and of a supported image type
Acceptable(file) ==
  /\ file.present
  /\ file.size <= 25 * 1024 * 1024
  /\ file.type \in SupportedTypes

\* C16: validateImage accepts a file iff it is present, its size is at most
\* 25MB and its MIME type is a supported image type; processImage on a file
\* that validateImage rejects fails before any canvas work.
C16_ValidateImage ==
  /\ verdict # "none" => (verdict = "accepted" <=> Acceptable(candidate))
  /\ (attempt # "none" /\ ~validateImage(candidate)) => attempt = "invalid"

(***************************************************************************)
(* The batch list of App: handleBatchAdd and handleBatchRemove.            *)
(***************************************************************************)
ValidFile == File(<<"photo", ".", "png">>, 1000, <<"image", "png">>, TRUE)
OtherValidFile == File(<<"photo", ".", "jpg">>, 2000, <<"image", "jpeg">>, TRUE)
OversizeFile == File(<<"huge", ".", "png">>, MAX_FILE_SIZE + 1, <<"image", "png">>, TRUE)
NotAnImage == File(<<"notes", ".", "txt">>, 10, <<"text", "plain">>, TRUE)

\* the File[] of one drop
DropCatalogue ==
  { <<ValidFile>>,
    <<OversizeFile, OtherValidFile, NotAnImage>>,
    <<ValidFile, OtherValidFile, ValidFile, OversizeFile, OtherValidFile>>,
    <<ValidFile, ValidFile, OtherValidFile, OtherValidFile, ValidFile, OtherValidFile>> }

\* files.filter(validateImage)
RECURSIVE filter(_)
filter(array) ==
  IF array = <<>> THEN <<>>
  ELSE IF validateImage(Head(array).file) THEN <<Head(array)>> \o filter(Tail(array))
  ELSE filter(Tail(array))

\* array.filter((_, i) => i !== index), index counted from 0
withoutIndex(array, index) ==
  [k \in 1..(Len(array) - (IF index < Len(array) THEN 1 ELSE 0)) |->
     IF k <= index THEN array[k] ELSE array[k + 1]]

\* a slice that keeps everything
sliceAll(array, begin, end) == array

\* array.slice(begin, end) for 0 <= begin <= end
slice(array, begin, end) == SubSeq(array, begin + 1, Min(end, Len(array)))

\* the files of a drop, numbered in the order they were dropped
Tagged(files0, first) ==
  [k \in 1..Len(files0) |-> [file |-> files0[k], drop |-> first + k]]

NoCall == [kind |-> "none", before |-> <<>>, index |-> 0, valid |-> <<>>]

ListInit ==
  /\ batchFiles = <<>>
  /\ dropped = 0
  /\ listCalls = 0
  /\ lastCall = NoCall

\* handleBatchAdd(files)
HandleBatchAdd ==
  \E newFiles \in DropCatalogue :
    LET tagged == Tagged(newFiles, dropped)
        validFiles == filter(tagged)
    IN  /\ listCalls < MaxListCalls
        /\ batchFiles' = slice(batchFiles \o validFiles, 0, BatchLimit)
        /\ dropped' = dropped + Len(newFiles)
        /\ listCalls' = listCalls + 1
        /\ lastCall' = [kind |-> "add", before |-> batchFiles, index |-> 0,
                         valid |-> validFiles]
        /\ UNCHANGED notList

\* handleBatchRemove(index): the remove button of entry `index`
HandleBatchRemove ==
  \E index \in 0..(Len(batchFiles) - 1) :
    /\ listCalls < MaxListCalls
    /\ batchFiles' = withoutIndex(batchFiles, index)
    /\ listCalls' = listCalls + 1
    /\ lastCall' = [kind |-> "remove", before |-> batchFiles, index |-> index,
                     valid |-> <<>>]
    /\ UNCHANGED dropped
    /\ UNCHANGED notList

\* the variables of the batch list while another component is observed
ListIdle ==
  /\ batchFiles = <<>>
  /\ dropped = 0
  /\ listCalls = 0
  /\ lastCall = NoCall

\* C17: after any sequence of handleBatchAdd and handleBatchRemove calls the
\* batch list holds at most 10 files, every file in it passed validateImage,
\* the files are in the order in which they were added, an add keeps the
\* entries it found, and the removal of index i removes exactly that entry.
C17_BatchList ==
  /\ Len(batchFiles) <= 10
  /\ \A k \in 1..Len(batchFiles) : validateImage(batchFiles[k].file)
  /\ \A k, l \in 1..Len(batchFiles) : k < l => batchFiles[k].drop < batchFiles[l].drop
  /\ lastCall.kind = "add" =>
       /\ Len(batchFiles) = Min(10, Len(lastCall.before) + Len(lastCall.valid))
       /\ \A k \in 1..Len(batchFiles) :
            batchFiles[k] = (lastCall.before \o lastCall.valid)[k]
  /\ lastCall.kind = "remove" =>
       /\ Len(batchFiles) = Len(lastCall.before) - 1
       /\ \A k \in 1..Len(batchFiles) :
            batchFiles[k] = lastCall.before[IF k <= lastCall.index THEN k ELSE k + 1]

\* an entry was removed from the middle of the list and a later drop with an
\* invalid file overflowed the limit
C17_LimitReached ==
  /\ Len(batchFiles) = 10
  /\ lastCall.kind = "add"
  /\ Len(lastCall.before) + Len(lastCall.valid) > 10
  /\ \E k \in 1..9 : batchFiles[k + 1].drop > batchFiles[k].drop + 1
  /\ dropped > Len(lastCall.before) + Len(lastCall.valid) + 1

(***************************************************************************)
(* Background removal (BackgroundRemoval.processImage).  The mask is a      *)
(* Uint8Array with one entry per pixel, in the order of the pixels.         *)
(***************************************************************************)
\* the sliders of the component: threshold and tolerance 0..100, smoothing
\* 0..5, featherSize 0..10, in steps of one
ThresholdValues == {20, 100}
ToleranceValues == {30, 100}
SmoothingValues == 0..5
FeatherValues == 0..10
RemovalDefaults == [threshold |-> 20, tolerance |-> 30, smoothing |-> 1, featherSize |-> 2]

White == <<255, 255, 255, 255>>
Solid(w, h, p) == Canvas(w, h, [k \in 1..(w * h) |-> p])
IsSolid(c) == \A k \in 1..Len(c.px) : c.px[k] = c.px[1]

\* the ImageData read back from the canvas after drawImage(img, 0, 0)
RemovalCatalogue ==
  { Solid(3, 3, White),
    Solid(4, 4, <<200, 200, 200, 255>>),
    Solid(4, 3, <<10, 20, 30, 255>>),
    \* a darker left column next to white
    Canvas(3, 3, << <<127, 255, 255, 255>>, White, White,
                    <<127, 255, 255, 255>>, White, White,
                    <<127, 255, 255, 255>>, White, White >>),
    \* a faint left column
    Canvas(3, 3, << <<245, 255, 255, 255>>, White, White,
                    <<245, 255, 255, 255>>, White, White,
                    <<245, 255, 255, 255>>, White, White >>),
    \* a red half and a white half: the red channel is flat
    Canvas(4, 3, << <<255, 0, 0, 255>>, <<255, 0, 0, 255>>, White, White,
                    <<255, 0, 0, 255>>, <<255, 0, 0, 255>>, White, White,
                    <<255, 0, 0, 255>>, <<255, 0, 0, 255>>, White, White >>),
    \* a dark corner and a translucent object on white
    Canvas(4, 3, << <<155, 155, 155, 255>>, White, White, White,
                    White, White, <<0, 0, 0, 128>>, White,
                    White, White, White, <<90, 60, 30, 0>> >>) }

\* the coordinates of entry k of a row-major array over a width of w
XOf(k, w) == (k - 1) % w
YOf(k, w) == (k - 1) \div w

RECURSIVE SumSeq(_)
SumSeq(s) == IF s = <<>> THEN 0 ELSE Head(s) + SumSeq(Tail(s))

\* the integer part of Math.sqrt(n), by bisection between lo and hi
RECURSIVE SqrtSearch(_, _, _)
SqrtSearch(n, lo, hi) ==
  IF hi - lo <= 1 THEN lo
  ELSE LET mid == (lo + hi) \div 2
       IN  IF mid * mid <= n THEN SqrtSearch(n, mid, hi) ELSE SqrtSearch(n, lo, mid)
FloorSqrt(n) == SqrtSearch(n, 0, 46341)

\* a number stored into a Uint8Array: its integer part modulo 256
ToUint8(n) == n % 256

sobelX == <<-1, 0, 1, -2, 0, 2, -1, 0, 1>>
sobelY == <<-1, -2, -1, 0, 0, 0, 1, 2, 1>>

\* pixelX or pixelY of the pixel (x, y): the kernel applied to the red channel
Gradient(c, x, y, kernel) ==
  SumSeq([m \in 1..9 |->
    LET kernelY == ((m - 1) \div 3) - 1
        kernelX == ((m - 1) % 3) - 1
    IN  c.px[(y + kernelY) * c.w + (x + kernelX) + 1][1] * kernel[m]])

\* pixelX * pixelX + pixelY * pixelY: the square of the gradient magnitude
MagnitudeSquared(c, x, y) ==
  LET pixelX == Gradient(c, x, y, sobelX)
      pixelY == Gradient(c, x, y, sobelY)
  IN  pixelX * pixelX + pixelY * pixelY

\* the pixels the loops of applySobelOperator visit
Interior(c, k) ==
  /\ XOf(k, c.w) >= 1 /\ XOf(k, c.w) < c.w - 1
  /\ YOf(k, c.w) >= 1 /\ YOf(k, c.w) < c.h - 1

\* applySobelOperator(data, width, height): output is a Uint8Array
applySobelOperator(c) ==
  [k \in 1..(c.w * c.h) |->
     IF Interior(c, k)
       THEN ToUint8(FloorSqrt(MagnitudeSquared(c, XOf(k, c.w), YOf(k, c.w))))
       ELSE 0]

\* (255 - r)^2 + (255 - g)^2 + (255 - b)^2: the square of colorDiff
ColorDiffSquared(p) ==
  (255 - p[1]) * (255 - p[1]) + (255 - p[2]) * (255 - p[2]) + (255 - p[3]) * (255 - p[3])

\* edgeStrength > threshold || colorDiff > tolerance; the square root of an
\* integer exceeds the integer tolerance iff the integer exceeds its square
isForeground(edgeStrength, p, threshold, tolerance) ==
  \/ edgeStrength > threshold
  \/ ColorDiffSquared(p) > tolerance * tolerance

\* the loop that fills the mask
classify(c, sobelData, threshold, tolerance) ==
  [k \in 1..(c.w * c.h) |->
     IF isForeground(sobelData[k], c.px[k], threshold, tolerance) THEN 255 ELSE 0]

\* for (i = 0; i < mask.length; i++) mask[i] = temp[i]
CopyInto(temp) == SubSeq(temp, 1, Len(temp))

\* Math.round(sum / count) for integers sum >= 0 and count > 0
RoundedQuotient(sum, count) == (2 * sum + count) \div (2 * count)

\* a box blur without the temp array: every mean is stored into the mask at
\* once and read by the cells after it
RECURSIVE smoothInPlaceFrom(_, _, _, _)
smoothInPlaceFrom(mask, w, h, k) ==
  IF k > w * h THEN mask
  ELSE LET InWindow(n) ==
             /\ Abs(XOf(n, w) - XOf(k, w)) <= 1
             /\ Abs(YOf(n, w) - YOf(k, w)) <= 1
           sum == SumSeq([n \in 1..(w * h) |-> IF InWindow(n) THEN mask[n] ELSE 0])
           count == Cardinality({n \in 1..(w * h) : InWindow(n)})
       IN  smoothInPlaceFrom([mask EXCEPT ![k] = (2 * sum + count) \div (2 * count)],
                             w, h, k + 1)
smoothMaskInPlace(mask, w, h) == smoothInPlaceFrom(mask, w, h, 1)

\* a box blur that divides by the nine cells of the window
smoothMaskFullWindow(mask, w, h) ==
  CopyInto([k \in 1..(w * h) |->
     LET InWindow(n) ==
           /\ Abs(XOf(n, w) - XOf(k, w)) <= 1
           /\ Abs(YOf(n, w) - YOf(k, w)) <= 1
         sum == SumSeq([n \in 1..(w * h) |-> IF InWindow(n) THEN mask[n] ELSE 0])
     IN  RoundedQuotient(sum, 9)])

\* smoothMask(mask, width, height): the mean over the cells of the 3x3 window
\* that lie inside the image
smoothMask(mask, w, h) ==
  CopyInto([k \in 1..(w * h) |->
     LET InWindow(n) ==
           /\ Abs(XOf(n, w) - XOf(k, w)) <= 1
           /\ Abs(YOf(n, w) - YOf(k, w)) <= 1
         sum == SumSeq([n \in 1..(w * h) |-> IF InWindow(n) THEN mask[n] ELSE 0])
         count == Cardinality({n \in 1..(w * h) : InWindow(n)})
     IN  RoundedQuotient(sum, count)])

\* for (i = 0; i < smoothing; i++) smoothMask(mask, width, height): the mask
\* before the loop and after each of its iterations
RECURSIVE smoothingTrace(_, _, _, _)
smoothingTrace(mask, w, h, smoothing) ==
  IF smoothing = 0 THEN <<CopyInto(mask)>>
  ELSE LET trace == smoothingTrace(mask, w, h, smoothing - 1)
       IN  Append(trace, smoothMask(trace[Len(trace)], w, h))

\* the mask the loop leaves
smoothingLoop(mask, w, h, smoothing) ==
  LET trace == smoothingTrace(mask, w, h, smoothing)
  IN  trace[Len(trace)]

\* the weights of featherMask are kept as integers over the denominator
\* size * WeightScale
WeightScale == 10000

\* weight = 1 - distance / size for a cell at the squared distance d2
FeatherWeight(d2, size) == size * WeightScale - FloorSqrt(d2 * WeightScale * WeightScale)

\* featherMask(mask, width, height, size): the weighted mean over the cells
\* inside the image at a distance of at most size
featherMask(mask, w, h, size) ==
  CopyInto([k \in 1..(w * h) |->
     LET D2(n) ==
           (XOf(n, w) - XOf(k, w)) * (XOf(n, w) - XOf(k, w))
             + (YOf(n, w) - YOf(k, w)) * (YOf(n, w) - YOf(k, w))
         Weight(n) == IF D2(n) <= size * size THEN FeatherWeight(D2(n), size) ELSE 0
         sum == SumSeq([n \in 1..(w * h) |-> mask[n] * Weight(n)])
         count == SumSeq([n \in 1..(w * h) |-> Weight(n)])
     IN  RoundedQuotient(sum, count)])

\* a mask application that also blanks the colour of the removed pixels
applyMaskBlanking(c, mask) ==
  Canvas(c.w, c.h,
    [k \in 1..(c.w * c.h) |->
       IF mask[k] = 0 THEN Transparent
       ELSE <<c.px[k][1], c.px[k][2], c.px[k][3], mask[k]>>])

\* data[i + 3] = mask[idx] for every pixel
applyMask(c, mask) ==
  Canvas(c.w, c.h,
    [k \in 1..(c.w * c.h) |-> <<c.px[k][1], c.px[k][2], c.px[k][3], mask[k]>>])

\* the synchronous part of processImage, from getImageData to putImageData
removeBackground(c, params) ==
  LET sobelData == applySobelOperator(c)
      initial   == classify(c, sobelData, params.threshold, params.tolerance)
      passes    == smoothingTrace(initial, c.w, c.h, params.smoothing)
      smoothed  == passes[Len(passes)]
      mask      == IF params.featherSize > 0
                     THEN featherMask(smoothed, c.w, c.h, params.featherSize)
                     ELSE smoothed
  IN  [sobelData |-> sobelData, initial |-> initial, passes |-> passes,
       mask |-> mask, data |-> applyMask(c, mask)]

RemovalParameters ==
  [threshold : ThresholdValues, tolerance : ToleranceValues,
   smoothing : SmoothingValues, featherSize : FeatherValues]

\* removeBackground over the sources and parameters of the model
RemovalTable ==
  [c \in RemovalCatalogue, params \in RemovalParameters |-> removeBackground(c, params)]

NoRemoval ==
  [sobelData |-> <<>>, initial |-> <<>>, passes |-> <<>>, mask |-> <<>>,
   data |-> Canvas(0, 0, <<>>)]

RemovalInit ==
  /\ removalSource \in RemovalCatalogue
  /\ removalParams = RemovalDefaults
  /\ removalPc = "idle"
  /\ removalRun = NoRemoval
  /\ removalPreview = ""

\* setThreshold, setTolerance, setSmoothing, setFeatherSize: the sliders are
\* disabled while isProcessing
SetRemovalParameter ==
  \E params \in
       {[removalParams EXCEPT !.threshold = v] : v \in ThresholdValues}
         \cup {[removalParams EXCEPT !.tolerance = v] : v \in ToleranceValues}
         \cup {[removalParams EXCEPT !.smoothing = v] : v \in SmoothingValues}
         \cup {[removalParams EXCEPT !.featherSize = v] : v \in FeatherValues} :
    /\ removalPc = "idle"
    /\ params # removalParams
    /\ removalParams' = params
    /\ UNCHANGED <<removalSource, removalPc, removalRun, removalPreview>>
    /\ UNCHANGED notRemoval

\* the Remove Background button: processImage up to createImageBitmap
ClickRemoveBackground ==
  /\ removalPc = "idle"
  /\ removalPc' = "decoding"
  /\ UNCHANGED <<removalSource, removalParams, removalRun, removalPreview>>
  /\ UNCHANGED notRemoval

\* createImageBitmap resolved: processImage up to canvas.toBlob
RemovalBitmapCreated ==
  /\ removalPc = "decoding"
  /\ removalRun' = RemovalTable[removalSource, removalParams]
  /\ removalPc' = "encoding"
  /\ UNCHANGED <<removalSource, removalParams, removalPreview>>
  /\ UNCHANGED notRemoval

\* the toBlob callback: setPreviewUrl, onImageProcess, setIsProcessing(false)
RemovalBlobReady ==
  /\ removalPc = "encoding"
  /\ removalPreview' = "objectUrl"
  /\ removalRun' = NoRemoval
  /\ removalPc' = "idle"
  /\ UNCHANGED <<removalSource, removalParams>>
  /\ UNCHANGED notRemoval

\* the reset button shown with the preview and disabled while isProcessing:
\* setPreviewUrl('')
ResetRemoval ==
  /\ removalPc = "idle"
  /\ removalPreview # ""
  /\ removalPreview' = ""
  /\ UNCHANGED <<removalSource, removalParams, removalPc, removalRun>>
  /\ UNCHANGED notRemoval

\* the variables of the background removal while another component is observed
RemovalIdle ==
  /\ removalSource = Solid(3, 3, White)
  /\ removalParams = RemovalDefaults
  /\ removalPc = "idle"
  /\ removalRun = NoRemoval
  /\ removalPreview = ""

\* processImage has filled the canvas and the blob is not delivered yet: the
\* parameters are those of the run
RemovalComputed == removalPc = "encoding"

\* C18: the initial mask of a pixel is 255 iff its edge strength exceeds the
\* threshold or its colour difference from white exceeds the tolerance, the
\* edge strength being the Sobel gradient magnitude of the red channel itself
\* (not a byte it was reduced to) and 0 on the outermost ring of pixels.
C18_InitialMask ==
  RemovalComputed =>
    \A k \in 1..Len(removalSource.px) :
      LET c == removalSource
          edgeExceeds ==
            /\ Interior(c, k)
            /\ MagnitudeSquared(c, XOf(k, c.w), YOf(k, c.w))
                 > removalParams.threshold * removalParams.threshold
      IN  /\ removalRun.initial[k] \in {0, 255}
          /\ removalRun.initial[k] = 255 <=>
               (edgeExceeds \/ ColorDiffSquared(c.px[k])
                                 > removalParams.tolerance * removalParams.tolerance)

\* the in-bounds cells of the 3x3 neighbourhood of cell k
Neighbourhood(k, w, h) ==
  { n \in 1..(w * h) :
      /\ XOf(n, w) \in (XOf(k, w) - 1)..(XOf(k, w) + 1)
      /\ YOf(n, w) \in (YOf(k, w) - 1)..(YOf(k, w) + 1) }

RECURSIVE SumOfCells(_, _)
SumOfCells(mask, cells) ==
  IF cells = {} THEN 0
  ELSE LET n == CHOOSE n \in cells : TRUE
       IN  mask[n] + SumOfCells(mask, cells \ {n})

\* m is the mean of the values of the mask over the cells, rounded to the
\* nearest integer (a half is rounded up)
IsRoundedMean(m, mask, cells) ==
  LET sum == SumOfCells(mask, cells)
      count == Cardinality(cells)
  IN  2 * count * m <= 2 * sum + count /\ 2 * sum + count < 2 * count * (m + 1)

\* after is the mask one pass makes of before
IsBoxBlurOf(after, before, w, h) ==
  /\ Len(after) = Len(before)
  /\ \A k \in 1..Len(before) :
       /\ after[k] \in 0..255
       /\ IsRoundedMean(after[k], before, Neighbourhood(k, w, h))

\* C26: each of the `smoothing` passes replaces every mask value with the
\* rounded unweighted mean of the values its in-bounds 3x3 neighbours had
\* before that pass, exactly `smoothing` passes are run, and every mask value
\* stays within 0..255.
C26_SmoothingPasses ==
  RemovalComputed =>
    LET passes == removalRun.passes
        w == removalSource.w
        h == removalSource.h
    IN  /\ Len(passes) = removalParams.smoothing + 1
        /\ passes[1] = removalRun.initial
        /\ \A i \in 1..removalParams.smoothing : IsBoxBlurOf(passes[i + 1], passes[i], w, h)
        /\ removalParams.featherSize = 0 => removalRun.mask = passes[Len(passes)]

\* three passes over a mask with foreground and background, each changing it
C26_ThreePasses ==
  /\ RemovalComputed
  /\ removalParams.smoothing = 3
  /\ removalParams.featherSize = 0
  /\ \E k, l \in 1..Len(removalRun.initial) :
       removalRun.initial[k] = 0 /\ removalRun.initial[l] = 255
  /\ \A i \in 1..3 : removalRun.passes[i + 1] # removalRun.passes[i]

C20_SolidMaskUniform ==
  (RemovalComputed /\ IsSolid(removalSource)) =>
    LET value == IF ColorDiffSquared(removalSource.px[1])
                      > removalParams.tolerance * removalParams.tolerance
                   THEN 255 ELSE 0
    IN  \A k \in 1..Len(removalSource.px) :
          /\ removalRun.initial[k] = value
          /\ removalRun.mask[k] = value

\* a solid buffer with interior, edge and corner pixels kept as foreground
\* through five smoothing passes and a feathering of radius ten
C20_SolidForeground ==
  /\ RemovalComputed
  /\ IsSolid(removalSource)
  /\ removalSource.w = 4 /\ removalSource.h = 4
  /\ removalParams.smoothing = 5
  /\ removalParams.featherSize = 10
  /\ \A k \in 1..16 : removalRun.mask[k] = 255

(***************************************************************************)
(* The stages of the pipelines as functions of a buffer: a behaviour is    *)
(* one call of one stage, with its input, its parameters and its result.   *)
(***************************************************************************)
NoStage == [op |-> "none", input |-> <<>>, params |-> <<>>, output |-> <<>>]

StageInit == stage = NoStage

\* the variables of the stages while another component is observed
StageIdle == stage = NoStage

\* pixels with the hues 355, 350, 10, 143.3, 240 and 0 (grey)
SplashPixels ==
  { Opaque(240, 0, 20), Opaque(240, 0, 40), Opaque(240, 40, 0), Opaque(20, 200, 90),
    Opaque(60, 60, 240), Opaque(200, 200, 200), <<240, 0, 20, 128>> }
\* the sliders: targetHue 0..360 and hueTolerance 1..180
TargetHueValues == {0, 120, 350, 360}
HueToleranceValues == {1, 10, 20, 180}

\* the colour splash loop of applyAdvancedEffects on the pixels of data
CallColorSplash ==
  \E p \in SplashPixels, q \in SplashPixels :
    \E targetHue \in TargetHueValues, hueTolerance \in HueToleranceValues :
      /\ stage = NoStage
      /\ stage' = [op |-> "colorSplash", input |-> <<p, q>>,
                   params |-> [targetHue |-> targetHue, hueTolerance |-> hueTolerance],
                   output |-> ColorSplash(<<p, q>>, TRUE, targetHue, hueTolerance)]
      /\ UNCHANGED notStage

\* buffers of even and of odd sizes
FlipCatalogue ==
  ImageCatalogue \cup
    { Canvas(3, 1, <<Opaque(1, 2, 3), Opaque(4, 5, 6), Opaque(7, 8, 9)>>),
      Canvas(1, 3, <<Opaque(1, 2, 3), Opaque(4, 5, 6), Opaque(7, 8, 9)>>),
      Canvas(3, 3, [k \in 1..9 |-> Opaque(k, 10 * k, 20 * k)]),
      Canvas(1, 1, <<Opaque(9, 9, 9)>>) }

\* the geometric stage of processImage with rotation 0
CallGeometric ==
  \E img \in FlipCatalogue, flipX \in BOOLEAN, flipY \in BOOLEAN :
    /\ stage = NoStage
    /\ stage' = [op |-> "geometric", input |-> img,
                 params |-> [flipX |-> flipX, flipY |-> flipY, applied |-> 1],
                 output |-> Geometric(img, 0, flipX, flipY)]
    /\ UNCHANGED notStage

\* the same stage applied to the buffer the first application returned
CallGeometricAgain ==
  /\ stage.op = "geometric"
  /\ stage.params.applied = 1
  /\ stage' = [stage EXCEPT !.params.applied = 2,
                            !.output = Geometric(@, 0, stage.params.flipX, stage.params.flipY)]
  /\ UNCHANGED notStage

\* C22: the geometric stage with flipX (rotation 0) applied to a buffer and
\* then to its result returns the original buffer; the same holds for flipY.
C22_FlipInvolution ==
  (stage.op = "geometric" /\ stage.params.applied = 2) => stage.output = stage.input

\* a horizontal flip applied twice to a buffer that it does not leave as it is
C22_FlippedTwice ==
  /\ stage.op = "geometric"
  /\ stage.params = [flipX |-> TRUE, flipY |-> FALSE, applied |-> 2]
  /\ stage.input.w = 3
  /\ Geometric(stage.input, 0, TRUE, FALSE) # stage.input

\* the emboss stage of processImage and of generatePreview
CallEmboss ==
  \E img \in FlipCatalogue :
    /\ stage = NoStage
    /\ stage' = [op |-> "emboss", input |-> img, params |-> <<>>,
                 output |-> Emboss(img, TRUE)]
    /\ UNCHANGED notStage

\* C24: emboss is a function of the input buffer of the stage: every pixel
\* that is not the first of its row gets 128 + 2 * (cur - prev) per colour
\* channel, clamped to 0..255, cur and prev being the input values of the
\* pixel and of its left neighbour; the first pixel of every row and every
\* alpha value are unchanged.
C24_EmbossFromInput ==
  stage.op = "emboss" =>
    \A k \in 1..Len(stage.input.px) :
      LET in  == stage.input.px
          out == stage.output.px
          E(ch) == Max(0, Min(255, 128 + 2 * (in[k][ch] - in[k - 1][ch])))
      IN  IF (k - 1) % stage.input.w = 0
            THEN out[k] = in[k]
            ELSE out[k] = <<E(1), E(2), E(3), in[k][4]>>

\* values of the pixelate slider, 1..50
PixelateSlider == {1, 2, 3, 4, 50}

\* the pixelation stage of processImage, on the sizes the model resamples
\* exactly
CallPixelation ==
  \E img \in FlipCatalogue, pixelate \in PixelateSlider :
    /\ stage = NoStage
    /\ ExactPixelation(img, pixelate)
    /\ stage' = [op |-> "pixelate", input |-> img, params |-> [pixelate |-> pixelate],
                 output |-> IF PixelationThrows(img, pixelate)
                              THEN Thrown ELSE Drawn(Pixelation(img, pixelate))]
    /\ UNCHANGED notStage

\* C25: pixelation is total and keeps the size: for every pixelate in 1..50
\* and every buffer of width and height at least 1, also one narrower or
\* lower than pixelate, the stage succeeds, uses no intermediate buffer of
\* size zero and returns a buffer of the original width and height;
\* pixelate = 1 returns the input.
C25_PixelationTotal ==
  stage.op = "pixelate" =>
    /\ stage.output.status = "ok"
    /\ stage.output.canvas.w = stage.input.w
    /\ stage.output.canvas.h = stage.input.h
    /\ stage.params.pixelate > 1 =>
         /\ ScaledSize(stage.input.w, stage.params.pixelate) > 0
         /\ ScaledSize(stage.input.h, stage.params.pixelate) > 0
    /\ stage.params.pixelate = 1 => stage.output.canvas = stage.input

NoisePixels == { Opaque(0, 3, 255), Opaque(254, 128, 1), <<10, 20, 30, 128>> }
\* values of the noise slider, 0..100
NoiseAmounts == {0, 1, 2, 3}

\* the noise loop of applyAdvancedEffects on the pixels of data, with the
\* draws of Math.random() of the two pixels
CallNoise ==
  \E p \in NoisePixels, q \in NoisePixels, noiseAmount \in NoiseAmounts :
    \E noise \in [1..2 -> NoiseDraws(noiseAmount) \cup {0}] :
      /\ stage = NoStage
      /\ stage' = [op |-> "noise", input |-> <<p, q>>,
                   params |-> [noiseAmount |-> noiseAmount, noise |-> noise],
                   output |-> Noise(<<p, q>>, noiseAmount, noise)]
      /\ UNCHANGED notStage

\* C27: with noiseAmount = n > 0 every red, green and blue value of the output
\* is the input value plus an offset in [-n/2, +n/2], clamped to 0..255 and
\* stored in the 8-bit channel, and alpha is unchanged; with noiseAmount = 0
\* the noise step changes nothing.
C27_NoiseInRange ==
  stage.op = "noise" =>
    LET n == stage.params.noiseAmount
    IN  /\ n = 0 => stage.output = stage.input
        /\ \A k \in 1..Len(stage.input) :
             /\ stage.output[k][4] = stage.input[k][4]
             /\ \A ch \in 1..3 :
                  \E offset \in (-n)..n :
                    stage.output[k][ch] =
                      ToUint8Clamped(Min(510, Max(0, 2 * stage.input[k][ch] + offset)), 2)

\* noise of amount 3 at both ends of its range: one pixel raised and clamped
\* at 255, the other lowered and clamped at 0
C27_NoiseAtBothEnds ==
  /\ stage.op = "noise"
  /\ stage.params.noiseAmount = 3
  /\ stage.params.noise = <<2, -3>>
  /\ stage.input = <<Opaque(0, 3, 255), Opaque(254, 128, 1)>>
  /\ stage.output[1] = Opaque(1, 4, 255)
  /\ stage.output[2][3] = 0

\* C21: colour splash uses the circular hue distance: a pixel is converted to
\* grey iff min(|h - targetHue|, 360 - |h - targetHue|) > hueTolerance and is
\* left untouched otherwise; with targetHue 0 and hueTolerance 10 a pixel of
\* hue 355 keeps its colour.
C21_CircularHueDistance ==
  stage.op = "colorSplash" =>
    \A k \in 1..Len(stage.input) :
      LET p    == stage.input[k]
          h    == Hue(p[1], p[2], p[3])
          diff == Abs(h[1] - stage.params.targetHue * h[2])
          dist == Min(diff, 360 * h[2] - diff)
          gray == ToUint8Clamped(2126 * p[1] + 7152 * p[2] + 722 * p[3], 10000)
      IN  IF dist > stage.params.hueTolerance * h[2]
            THEN stage.output[k] = <<gray, gray, gray, p[4]>>
            ELSE stage.output[k] = p

\* the pixel of hue 355 kept next to a pixel of hue 143 turned grey
C21_Hue355Kept ==
  /\ stage.op = "colorSplash"
  /\ stage.params = [targetHue |-> 0, hueTolerance |-> 10]
  /\ stage.input = <<Opaque(240, 0, 20), Opaque(20, 200, 90)>>
  /\ stage.output[1] = Opaque(240, 0, 20)
  /\ stage.output[2] # stage.input[2]
  /\ stage.output[2][1] = stage.output[2][2]

LaterIdle == AdvPreviewIdle /\ ValidationIdle /\ ListIdle /\ RemovalIdle /\ StageIdle

\* C12: in the AdvancedEffects preview the setPreviewUrl calls follow the
\* submission order of the runs: the result of a superseded run is never
\* committed after the result of a later run.
C12_CommitsInSubmissionOrder ==
  \A k, l \in 1..Len(advCommits) : k < l => advCommits[k] <= advCommits[l]

(***************************************************************************)
(* Properties of convertBatch.                                             *)
(***************************************************************************)
Succeeded == {i \in Items : ItemSucceeded(i)}
Failed == {i \in Items : ItemFailed(i)}
BatchOver == batchPc = "done" /\ \A i \in Items : promise[i] # "pending"
LastToast == toasts[Len(toasts)]

\* the name without its last extension
RECURSIVE basename(_)
basename(name) ==
  IF \A k \in 1..Len(name) : name[k] # "." THEN name
  ELSE IF name[Len(name)] = "." THEN SubSeq(name, 1, Len(name) - 1)
  ELSE basename(SubSeq(name, 1, Len(name) - 1))

\* C2: an item whose processing throws is a failure of that item only: once
\* the batch is over, a batch with failed and successful items has delivered
\* the archive of its successful items.
C2_ItemFailureIsolated ==
  (BatchOver /\ Failed # {} /\ Succeeded # {})
    => /\ delivered.sent
       /\ {delivered.members[k].blob : k \in 1..Len(delivered.members)} = Succeeded

\* C3: the outcome is a failure only if no item succeeded or the archive
\* assembly failed; otherwise an archive is delivered; a batch without a
\* successful item is never reported as a success.
C3_FatalOnlyIfNoneOrZipFailed ==
  BatchOver =>
    /\ (LastToast = "error" => (Succeeded = {} \/ archive = "rejected"))
    /\ ((Succeeded # {} /\ archive # "rejected") => delivered.sent)
    /\ (Succeeded = {} => LastToast # "success")

\* C4: the members of the delivered archive are in the input order of the
\* files, whatever the order in which the items completed.
C4_ArchiveInInputOrder ==
  delivered.sent =>
    \A k, l \in 1..Len(delivered.members) :
      k < l => delivered.members[k].blob < delivered.members[l].blob

\* C5: the delivered archive has exactly one member per successful item,
\* named <original-basename>-converted.<target-extension>.
C5_OneMemberPerSuccess ==
  delivered.sent =>
    /\ Len(delivered.members) = Cardinality(Succeeded)
    /\ \A i \in Succeeded : \E k \in 1..Len(delivered.members) :
         /\ delivered.members[k].blob = i
         /\ delivered.members[k].name =
              basename(files[i].name) \o <<"-converted", ".", options.format>>

\* C10: a processImage call that has no step left to run has settled: its
\* promise is fulfilled or rejected.
C10_ProcessImageSettles ==
  \A i \in Items : ItemFinished(i) => promise[i] # "pending"

\* C15: for the lossless target formats png and bmp the quality is ignored:
\* whatever its value, processImage takes the encoding path that runs no
\* quality-driven compression step.
C15_LosslessSkipsCompression ==
  options.format \in {"png", "bmp"} => \A i \in Items : itemPc[i] # "compressing"

(***************************************************************************)
(* Properties of the pipelines.                                            *)
(***************************************************************************)
\* C6: processImage applies Geometric (rotate, then flip), Pixelation,
\* Emboss, Color Filter Chain and Tint Overlay in exactly this order, each
\* stage consuming the output of the stage before it, for every combination
\* of settings; a run that the pixelation aborts draws nothing.
C6_StageOrder ==
  exported.status # "none" =>
    LET geometric == Geometric(image, effects.rotation, effects.flipX, effects.flipY)
    IN  exported =
          IF PixelationThrows(geometric, effects.pixelate) THEN Thrown
          ELSE Drawn(Tint(ColorFilterChain(Emboss(Pixelation(geometric,
                       effects.pixelate), effects.emboss), effects), effects))

\* a run in which every stage was enabled and the order of the last two
\* stages and of pixelation and emboss shows in the pixels
C6_AllStagesRan ==
  /\ exported.status = "ok"
  /\ effects.flipX /\ effects.rotation = 180
  /\ effects.pixelate > 1 /\ effects.emboss
  /\ effects.tintColor # "none" /\ effects.invert
  /\ exported # processImageEmbossFirst(image, effects)
  /\ exported # generatePreview(image, effects)

\* resetEffects: every setting at its neutral value, tintIntensity apart
Neutral(o) ==
  /\ o.brightness = 100 /\ o.contrast = 100 /\ o.saturation = 100
  /\ o.rotation = 0 /\ ~o.flipX /\ ~o.flipY
  /\ o.blur = 0 /\ o.sepia = 0 /\ o.hueRotate = 0
  /\ ~o.invert /\ ~o.grayscale
  /\ o.pixelate = 1 /\ ~o.emboss
  /\ o.tintColor = "none"

\* C14: with all-neutral settings every stage of processImage is the
\* identity: the canvas it encodes is pixel-identical to the decoded input,
\* whatever the value of tintIntensity.
C14_NeutralIsIdentity ==
  (exported.status # "none" /\ Neutral(effects)) => exported = Drawn(image)

\* processImage has run with neutral settings and a tint intensity of 100 on
\* an image of several colours
C14_NeutralRun ==
  /\ exported.status = "ok"
  /\ Neutral(effects)
  /\ effects.tintIntensity = 100
  /\ \E k \in 1..Len(image.px) : image.px[k] # image.px[1]

\* C7: the preview pipeline and the export pipeline are the same pipeline:
\* for every image and every settings value they produce the same pixels.
C7_PreviewEqualsExport ==
  (exported.status # "none" /\ previewed.status # "none") => previewed = exported

(***************************************************************************)
(* Properties of usePreviewEffect.                                         *)
(***************************************************************************)
\* C1: once settings B are submitted, no preview computed from the earlier
\* settings A is committed: every setPreviewUrl call is made by a run of the
\* effect that was started for the latest submission, in every interleaving
\* of timers, image loads and preview generations.
C1_NoStaleCommit ==
  \A k \in 1..Len(commits) : runs[commits[k].run].submission = commits[k].at

\* settings A were in flight when B was submitted: the preview computed from
\* A was dropped and the preview computed from B was committed
C1_StaleRunDropped ==
  \E r \in 1..Len(runs) : \E k \in 1..Len(commits) :
    /\ runs[r].pc = "dropped"
    /\ runs[r].result.status = "ok"
    /\ runs[r].submission < runs[commits[k].run].submission
    /\ runs[r].settings # runs[commits[k].run].settings
    /\ commits[k].url.status = "ok"
    /\ commits[k].url # runs[r].result

\* a step in which a recompute fails: the image does not load or the
\* generation throws
RecomputeFails ==
  \E r \in 1..Len(runs) : runs[r].pc # "failed" /\ runs'[r].pc = "failed"

\* C13: when a preview recompute fails while a source image is selected, the
\* committed previewUrl is left as it was, neither cleared nor replaced, no
\* setPreviewUrl call is made, and one error notice is raised.
C13_FailureKeepsPreview ==
  [][(RecomputeFails /\ sourceImage.present)
       => (previewUrl' = previewUrl /\ commits' = commits /\ notices' = notices + 1)]_vars

\* a recompute failed while a preview committed earlier was shown
C13_FailedWithPreviewShown ==
  /\ sourceImage.present
  /\ previewUrl.status = "ok"
  /\ notices >= 1
  /\ \E r \in 1..Len(runs) :
       /\ runs[r].pc = "failed"
       /\ runs[r].previewUrl = previewUrl

\* the preview of the props of the current render
LatestPreview ==
  IF sourceImage.present /\ sourceImage.decodable
    THEN PreviewTable[sourceImage, settings]
    ELSE Thrown

\* the current render has a source that decodes and settings whose preview
\* generation succeeds
GenerationSucceeds == LatestPreview.status = "ok"

\* C11: after the last change of settings or source, provided the preview
\* generation succeeds and the component stays mounted, the preview computed
\* from exactly those latest settings is eventually committed: unless a
\* further change arrives, previewUrl comes to hold the latest preview.
C11_EventuallyCommitsLatest ==
  \A n \in 0..(MaxRuns + 1) :
    (submissions = n /\ mounted /\ GenerationSucceeds /\ Len(runs) < MaxRuns)
      ~> (submissions # n \/ ~mounted \/ previewUrl = LatestPreview)

\* the source and then the settings were changed, and the run of the effect
\* started for the last change has committed the preview of those settings
C11_LatestCommitted ==
  /\ mounted /\ GenerationSucceeds
  /\ submissions >= 2
  /\ settings # DefaultSettings
  /\ previewUrl = LatestPreview
  /\ previewUrl # PreviewTable[sourceImage, DefaultSettings]
  /\ Len(commits) > 0
  /\ commits[Len(commits)].at = submissions
  /\ runs[commits[Len(commits)].run].pc = "committed"

\* a run of the effect with a recompute scheduled (debounce timer pending)
\* or in flight (image loading, preview being generated)
Recomputing(run) == run.pc \in {"debounce", "loading", "generating"}

\* no recompute is scheduled or in flight
Quiescent == \A r \in 1..Len(runs) : ~Recomputing(runs[r])

\* the runs of the effect started while the n-th change was the latest one
RunsOfSubmission(n) == {r \in 1..Len(runs) : runs[r].submission = n}

\* the debounce timer of the run has fired: updatePreview was started
Started(run) == run.timer = "fired"

\* C29: usePreviewEffect quiesces.  One change of settings or source starts
\* at most two runs of the effect (the run of the change, and one more when
\* its commit changes previewUrl, a dependency of the effect); unless a
\* further change arrives, a state with no recompute scheduled or in flight
\* is reached.  Changes within one debounce window are coalesced: a run
\* superseded before its timer fired is cancelled and never starts, so only
\* the last run of the effect can have a pending timer.
C29_PreviewQuiesces ==
  /\ [](\A n \in 0..(MaxRuns + 1) : Cardinality(RunsOfSubmission(n)) <= 2)
  /\ [](\A r \in 1..Len(runs) :
         /\ (r < Len(runs) => runs[r].timer # "pending")
         /\ (runs[r].timer = "cancelled" => runs[r].pc = "cancelled")
         /\ (runs[r].pc = "cancelled" => ~Started(runs[r])))
  /\ \A n \in 0..(MaxRuns + 1) :
       (submissions = n /\ Len(runs) < MaxRuns)
         ~> (submissions # n \/ Quiescent)

\* two changes arrived within one debounce window: the run of the first was
\* cancelled before it started, the run of the second committed its preview,
\* the effect ran once more for the new previewUrl, and nothing is scheduled
\* or in flight any more
C29_CoalescedAndQuiet ==
  /\ mounted /\ Quiescent
  /\ submissions >= 2
  /\ \E r \in 1..Len(runs) :
       /\ runs[r].submission = submissions - 1
       /\ runs[r].pc = "cancelled"
  /\ Cardinality(RunsOfSubmission(submissions)) = 2
  /\ \E r \in RunsOfSubmission(submissions) : runs[r].pc = "committed"
  /\ previewUrl.status = "ok"

\* the object URL of run r was put into previewUrl and has been replaced
\* there by the URL of another run
PreviewReplaced(r) ==
  /\ advRuns[r].pc = "done"
  /\ advPreviewUrl.run # r

\* C30: in the AdvancedEffects preview no object URL is left unrevoked after
\* its preview has been replaced: the URL of a run whose preview was replaced
\* by a later setPreviewUrl is revoked.
C30_ReplacedUrlRevoked ==
  \A r \in 1..Len(advRuns) : PreviewReplaced(r) => advRuns[r].url = "revoked"

(***************************************************************************)
(* Properties of applyAdvancedEffects.                                     *)
(***************************************************************************)
\* C8: the output of applyAdvancedEffects is the sequential composition of
\* the enabled effects in the order noise, kaleidoscope, mirror, colour
\* splash, glitch, gamma, colour balance, split toning, each effect reading
\* the result of the one before: no effect's result is overwritten by a
\* buffer captured before it ran.
C8_SequentialComposition ==
  \A a \in 1..Len(applications) :
    applications[a].pc = "done" => applications[a].out = applications[a].composed

\* C9: two runs of the pipeline on the same input with equal settings yield
\* byte-identical output, also with noiseAmount > 0 or glitchIntensity > 0.
C9_Deterministic ==
  \A a, b \in 1..Len(applications) :
    (applications[a].pc = "done" /\ applications[b].pc = "done")
      => applications[a].out = applications[b].out

\* what the batch leaves alone while another component is observed
BatchIdle ==
  /\ files = <<>>
  /\ options = <<>>
  /\ isProcessing = FALSE
  /\ batchPc = "idle"
  /\ itemPc = <<>>
  /\ promise = <<>>
  /\ zip = <<>>
  /\ archive = "none"
  /\ delivered = NoArchive
  /\ toasts = <<>>

(***************************************************************************)
(* Specifications: one per component.                                      *)
(***************************************************************************)
Init == BatchInit /\ PipelineIdle /\ PreviewIdle /\ AdvancedIdle /\ LaterIdle
Next ==
  \/ ConvertBatch
  \/ BitmapCreated
  \/ ToBlobCallback
  \/ CompressionSettled
  \/ GenerateAsyncSettled
Spec == Init /\ [][Next]_vars

\* the browser settles createImageBitmap, calls the toBlob callback, and the
\* compression and archive promises settle
FairBatch ==
  /\ WF_vars(BitmapCreated)
  /\ WF_vars(ToBlobCallback)
  /\ WF_vars(CompressionSettled)
  /\ WF_vars(GenerateAsyncSettled)
SpecLive == Init /\ [][Next]_vars /\ FairBatch

\* C28: isProcessing is true from the start of a convertBatch call until the
\* call finishes, and every call eventually sets isProcessing back to false,
\* whether processing succeeds, is rejected by validation, or fails in
\* decoding, encoding, compression or archive generation.
C28_ProcessingEnds ==
  /\ [](batchPc \in {"awaitAll", "zipping"} => isProcessing)
  /\ isProcessing ~> ~isProcessing

InitPipeline == PipelineInit /\ BatchIdle /\ PreviewIdle /\ AdvancedIdle /\ LaterIdle
NextPipeline == RunProcessImage \/ RunGeneratePreview
SpecPipeline == InitPipeline /\ [][NextPipeline]_vars

InitPreview == PreviewInit /\ BatchIdle /\ PipelineIdle /\ AdvancedIdle /\ LaterIdle
NextPreview ==
  \/ SubmitSettings
  \/ SubmitSource
  \/ TimerFires
  \/ ImageLoaded
  \/ ImageError
  \/ PreviewGenerated
  \/ Unmount
SpecPreview == InitPreview /\ [][NextPreview]_vars

\* the browser runs every due timer, image event and promise continuation
FairPreview ==
  /\ WF_vars(TimerFires)
  /\ WF_vars(ImageLoaded)
  /\ WF_vars(ImageError)
  /\ WF_vars(PreviewGenerated)
SpecPreviewLive == InitPreview /\ [][NextPreview]_vars /\ FairPreview

InitAdvanced == AdvancedInit /\ BatchIdle /\ PipelineIdle /\ PreviewIdle /\ LaterIdle
NextAdvanced ==
  \/ ApplyAdvancedEffects
  \/ EffectsBeforeGlitch
  \/ GlitchIteration
  \/ EffectsAfterGlitch
SpecAdvanced == InitAdvanced /\ [][NextAdvanced]_vars

FirstIdle == BatchIdle /\ PipelineIdle /\ PreviewIdle /\ AdvancedIdle

InitAdvPreview == AdvPreviewInit /\ FirstIdle /\ ValidationIdle /\ ListIdle /\ RemovalIdle /\ StageIdle
NextAdvPreview ==
  \/ SetAdvancedParameter
  \/ AdvancedBitmapCreated
  \/ AdvancedBlobReady
SpecAdvPreview == InitAdvPreview /\ [][NextAdvPreview]_vars

InitValidation == ValidationInit /\ FirstIdle /\ AdvPreviewIdle /\ ListIdle /\ RemovalIdle /\ StageIdle
NextValidation == CallValidateImage \/ CallProcessImage
SpecValidation == InitValidation /\ [][NextValidation]_vars

InitList == ListInit /\ FirstIdle /\ AdvPreviewIdle /\ ValidationIdle /\ RemovalIdle /\ StageIdle
NextList == HandleBatchAdd \/ HandleBatchRemove
SpecList == InitList /\ [][NextList]_vars

InitRemoval == RemovalInit /\ FirstIdle /\ AdvPreviewIdle /\ ValidationIdle /\ ListIdle /\ StageIdle
NextRemoval ==
  \/ SetRemovalParameter
  \/ ClickRemoveBackground
  \/ RemovalBitmapCreated
  \/ RemovalBlobReady
  \/ ResetRemoval
SpecRemoval == InitRemoval /\ [][NextRemoval]_vars

InitStages ==
  StageInit /\ FirstIdle /\ AdvPreviewIdle /\ ValidationIdle /\ ListIdle /\ RemovalIdle
NextStages ==
  \/ CallColorSplash
  \/ CallGeometric
  \/ CallGeometricAgain
  \/ CallEmboss
  \/ CallPixelation
  \/ CallNoise
SpecStages == InitStages /\ [][NextStages]_vars

====
